---- MODULE Spec2Model ----
(***************************************************************************)
(* Model of scripts/scraper.py: the progress store (ProductsDB), the       *)
(* parallel crawl engine (BaseScraper.scrape_all / _process_url), the      *)
(* catalog merger (save_products) and the crawl entry point (main).        *)
(*                                                                         *)
(* Conventions.  Python None is the empty tuple <<>> and an optional value *)
(* v is <<v>>.  Python strings are TLA+ strings (\o, Len and SubSeq act on *)
(* them as + , len and slicing).  Python numbers are records that keep the *)
(* int apart from the float.  Timestamps (processed_at, last_scraped,      *)
(* lastUpdated) and log output are left out: no operation reads them.  A   *)
(* pool thread takes its task in one step, and then one step of a thread   *)
(* is its local computation up to and including its next operation on      *)
(* shared state (one ProductsDB call, one products_lock section, one file  *)
(* operation).                                                             *)
(***************************************************************************)
EXTENDS Integers, Sequences, FiniteSets, TLC

VARIABLES
    progress,     \* table urls_progress: set of rows
    cache,        \* table products_cache: set of rows
    file,         \* PRODUCTS_FILE: Absent, Partial or the catalog object
    mpc,          \* position of the main thread of the running process
    args,         \* parsed command line of the running process
    idx,          \* main: index of the supplier loop
    allProducts,  \* main: all_products
    exitCode,     \* result of the last process
    urls,         \* scrape_all: urls
    queue,        \* scrape_all: tasks submitted to the pool and not yet started
    products,     \* scrape_all: products (guarded by products_lock)
    lock,         \* scrape_all: holder of products_lock (0 = free)
    wk,           \* scrape_all: per pool thread, position and locals
    sv,           \* activation record of save_products
    outcome,      \* history: what the last processing of each URL met in this process
    flushed,      \* history: size of the last snapshot handed to save_callback
    lastAccepted, \* history: fields of the last accepted record per (supplier, sku)
    smFetched,    \* history: the last URL sourcing downloaded the sitemap
    startFile,    \* history: PRODUCTS_FILE when the running process started
    lastMerge,    \* history: the arguments and the old file of the last completed save
    op,           \* history: the last ProductsDB call made on its own, or the last
                  \*          status, reset or export invocation, with its arguments
    writes,       \* history: per pool thread, the status writes for the URL it took
                  \*          last (-1: it has taken none)
    okLog,        \* history: the records whose URL was marked 'ok' in the current pool
    flushes       \* history: per append of the current pool that made len(products) a
                  \*          multiple of save_interval: count, the thread, the calls
                  \*          of save_callback made for it and the size of the snapshot

vars == <<progress, cache, file, mpc, args, idx, allProducts, exitCode, urls,
          queue, products, lock, wk, sv, outcome, flushed, lastAccepted, smFetched,
          startFile, lastMerge, op, writes, okLog, flushes>>

----------------------------------------------------------------------------
(* Bounds of the model *)

SaveInterval == 2      \* save_interval (main passes 25)
TestLimit == 1         \* limit of --test (main passes 10)

(* Program constants *)

Retries == 3           \* fetch(url, retries=3)
ErrMax == 500          \* error[:500]

None == <<>>
Some(v) == <<v>>
NULL == "<NULL>"       \* SQL NULL in a TEXT column

----------------------------------------------------------------------------
(* Python string and list helpers *)

Min(a, b) == IF a <= b THEN a ELSE b

StartsWith(s, pre) == Len(s) >= Len(pre) /\ SubSeq(s, 1, Len(pre)) = pre

EndsWith(s, suf) ==
    Len(s) >= Len(suf) /\ SubSeq(s, Len(s) - Len(suf) + 1, Len(s)) = suf

Contains(s, sub) ==
    \E i \in 1..(Len(s) - Len(sub) + 1) : SubSeq(s, i, i + Len(sub) - 1) = sub

Prefix(s, n) == SubSeq(s, 1, Min(n, Len(s)))      \* s[:n]

Range(s) == {s[i] : i \in DOMAIN s}

BoolStr(b) == IF b THEN "True" ELSE "False"       \* str(bool)

\* s * n
RECURSIVE Repeat(_, _)
Repeat(s, n) ==
    IF n <= 0 THEN ""
    ELSE IF n = 1 THEN s
    ELSE Repeat(s, n \div 2) \o Repeat(s, n - n \div 2)

\* the whitespace characters that have no escape in a text
VT == ""                \* U+000B, vertical tab

FS == ""                \* U+001C, file separator

GS == ""                \* U+001D, group separator

RS == ""                \* U+001E, record separator

US == ""                \* U+001F, unit separator

NEL == ""               \* U+0085, next line

NBSP == " "              \* U+00A0, no-break space

OGHAM == " "             \* U+1680, ogham space mark

\* the characters that str.strip() removes, of those that can be written in
\* a text here: tab, line feed, vertical tab, form feed, carriage return, the
\* four separators U+001C to U+001F, space, next line (U+0085), no-break
\* space (U+00A0) and the ogham space mark (U+1680).  The spaces U+2000 to
\* U+200A, U+2028, U+2029, U+202F, U+205F and U+3000, which str.strip()
\* removes as well, cannot be written.
Whitespace == {"\t", "\n", VT, "\f", "\r", FS, GS, RS, US, " ", NEL, NBSP, OGHAM}

\* the characters that float() removes around a numeric text: those of
\* str.strip() but the four separators
FloatSpace == Whitespace \ {FS, GS, RS, US}

\* s without the characters of ws at its ends
StripOf(s, ws) ==
    LET n  == Len(s)
        In(i) == SubSeq(s, i, i) \in ws
        \* the characters of ws that s begins with, and those it ends with
        a  == CHOOSE k \in 0..n : (k = n \/ ~In(k + 1)) /\ \A i \in 1..k : In(i)
        b  == CHOOSE k \in 0..n : (k = n \/ ~In(n - k)) /\ \A i \in 1..k : In(n - i + 1)
    IN  IF a = n THEN "" ELSE SubSeq(s, a + 1, n - b)

\* str.strip()
Strip(s) == StripOf(s, Whitespace)

\* str.lower() on ASCII letters
Lower(s) ==
    LET up == "ABCDEFGHIJKLMNOPQRSTUVWXYZ"
        lo == "abcdefghijklmnopqrstuvwxyz"
        LowerChar(c) ==
            IF \E i \in 1..26 : SubSeq(up, i, i) = c
            THEN LET i == CHOOSE j \in 1..26 : SubSeq(up, j, j) = c
                 IN  SubSeq(lo, i, i)
            ELSE c
        RECURSIVE Go(_)
        Go(t) == IF Len(t) <= 1 THEN (IF t = "" THEN "" ELSE LowerChar(t))
                 ELSE Go(SubSeq(t, 1, Len(t) \div 2))
                        \o Go(SubSeq(t, Len(t) \div 2 + 1, Len(t)))
    IN  Go(s)

----------------------------------------------------------------------------
(* Natural numbers of any size: the limbs to base 10^4, the lowest first,  *)
(* without a zero as the highest limb; <<>> is 0.  A value that an         *)
(* operator uses more than once is an argument of it.                      *)

Base == 10000

Digits == <<"0", "1", "2", "3", "4", "5", "6", "7", "8", "9">>

IsDigit(c) == \E d \in DOMAIN Digits : Digits[d] = c

IsDigits(s) == s # "" /\ \A i \in 1..Len(s) : IsDigit(SubSeq(s, i, i))

DigitVal(c) == (CHOOSE d \in DOMAIN Digits : Digits[d] = c) - 1

RECURSIVE IntOf(_)
IntOf(s) ==
    IF s = "" THEN 0
    ELSE 10 * IntOf(SubSeq(s, 1, Len(s) - 1)) + DigitVal(SubSeq(s, Len(s), Len(s)))

\* k zeros
Zeros(k) == Repeat("0", k)

\* the number of zeros s begins with, the last digit of s not counted
LeadingZeros(s) ==
    CHOOSE k \in 0..(Len(s) - 1) :
        /\ k = Len(s) - 1 \/ SubSeq(s, k + 1, k + 1) # "0"
        /\ SubSeq(s, 1, k) = Zeros(k)

StripLeadingZeros(s) == IF s = "" THEN "" ELSE SubSeq(s, LeadingZeros(s) + 1, Len(s))

\* the number of zeros s ends with
TrailingZeros(s) ==
    CHOOSE k \in 0..Len(s) :
        /\ k = Len(s) \/ SubSeq(s, Len(s) - k, Len(s) - k) # "0"
        /\ SubSeq(s, Len(s) - k + 1, Len(s)) = Zeros(k)

Abs(n) == IF n < 0 THEN -n ELSE n

\* a without the zeros that are its highest limbs
Trim(a) ==
    IF a = <<>> THEN a
    ELSE IF a[Len(a)] # 0 THEN a
    ELSE SubSeq(a, 1, Len(a) - (CHOOSE k \in 1..Len(a) :
                                    /\ k = Len(a) \/ a[Len(a) - k] # 0
                                    /\ \A j \in 0..(k - 1) : a[Len(a) - j] = 0))

\* the limbs s, each below 2^31, split to base 10^4 and summed where they
\* meet: three limbs more, each below 3 * 10^4
TidySplit(s) ==
    SubSeq([i \in 1..(Len(s) + 3) |->
                (IF i <= Len(s) THEN s[i] % Base ELSE 0)
              + (IF i >= 2 /\ i - 1 <= Len(s) THEN (s[i - 1] \div Base) % Base ELSE 0)
              + (IF i >= 3 /\ i - 2 <= Len(s) THEN s[i - 2] \div (Base * Base) ELSE 0)],
           1, Len(s) + 3)

\* the limbs t with what each holds beyond the base added to the next: each
\* is Base at most
TidyPass(t) ==
    SubSeq([i \in 1..Len(t) |-> (t[i] % Base) + (IF i > 1 THEN t[i - 1] \div Base ELSE 0)],
           1, Len(t))

\* the carry into limb i of u: the nearest limb below it that is not
\* Base - 1 is Base or more
Carry(u, i) ==
    IF i = 1 THEN 0
    ELSE IF u[i - 1] # Base - 1 THEN (IF u[i - 1] >= Base THEN 1 ELSE 0)
    ELSE IF \E j \in 1..(i - 2) :
                /\ u[j] >= Base
                /\ \A k \in (j + 1)..(i - 2) : u[k] = Base - 1
         THEN 1 ELSE 0

\* the limbs u with the carries added
TidyCarry(u) == Trim(SubSeq([i \in 1..Len(u) |-> (u[i] + Carry(u, i)) % Base], 1, Len(u)))

\* the number whose limbs s are below 2^31 each
Tidy(s) ==
    IF s = <<>> THEN <<>> ELSE TidyCarry(TidyPass(TidySplit(SubSeq(s, 1, Len(s)))))

\* the number a digit string writes
BigOfDigits(s) ==
    Trim(SubSeq([i \in 1..((Len(s) + 3) \div 4) |->
                    IntOf(SubSeq(s, IF Len(s) - 4 * i + 1 < 1 THEN 1 ELSE Len(s) - 4 * i + 1,
                                 Len(s) - 4 * i + 4))],
                1, (Len(s) + 3) \div 4))

\* the digit string of a number
DigitsOfBig(a) ==
    LET Pad4(n) == SubSeq("000", 1, 4 - Len(ToString(n))) \o ToString(n)
        RECURSIVE Join(_, _)
        Join(lo, hi) ==
            IF lo = hi THEN Pad4(a[lo])
            ELSE Join((lo + hi) \div 2 + 1, hi) \o Join(lo, (lo + hi) \div 2)
    IN  IF a = <<>> THEN "0" ELSE StripLeadingZeros(Join(1, Len(a)))

\* the order of a and b: -1, 0 or 1
BigCmp(a, b) ==
    IF Len(a) # Len(b) THEN (IF Len(a) < Len(b) THEN -1 ELSE 1)
    ELSE IF a = b THEN 0
    ELSE LET n == Len(a)
             k == CHOOSE i \in 0..(n - 1) :
                    /\ a[n - i] # b[n - i]
                    /\ \A j \in 0..(i - 1) : a[n - j] = b[n - j]
         IN  IF a[n - k] < b[n - k] THEN -1 ELSE 1

\* a + b
BigAdd(a, b) ==
    IF a = <<>> THEN b
    ELSE IF b = <<>> THEN a
    ELSE Tidy([i \in 1..(IF Len(a) > Len(b) THEN Len(a) ELSE Len(b)) |->
                (IF i <= Len(a) THEN a[i] ELSE 0) + (IF i <= Len(b) THEN b[i] ELSE 0)])

\* a - b, for a >= b: a plus the complement of b, without the 1 above
BigSub(a, b) ==
    IF a = <<>> \/ b = <<>> THEN a
    ELSE Trim(SubSeq(Tidy([i \in 1..Len(a) |->
                            a[i] + (Base - 1 - (IF i <= Len(b) THEN b[i] ELSE 0))
                                 + (IF i = 1 THEN 1 ELSE 0)]),
                     1, Len(a)))

\* a * m, for 0 < m <= 2^17
BigMulSmall(a, m) ==
    IF a = <<>> THEN <<>> ELSE Tidy([i \in 1..Len(a) |-> a[i] * m])

\* 2 * a + bit
BigDouble(a, bit) ==
    IF a = <<>> THEN (IF bit = 0 THEN <<>> ELSE <<bit>>)
    ELSE Tidy([i \in 1..Len(a) |-> 2 * a[i] + (IF i = 1 THEN bit ELSE 0)])

\* a * m^k for a prime m whose power m^c is at most 2^17; the product of the
\* first half of the factors is taken before the second half is begun
RECURSIVE BigMulPow(_, _, _, _)
BigMulPow(a, m, c, k) ==
    IF a = <<>> THEN <<>>
    ELSE IF k <= c THEN BigMulSmall(a, m^k)
    ELSE CHOOSE r \in {BigMulPow(x, m, c, k - c * ((k \div c + 1) \div 2))
                        : x \in {BigMulPow(a, m, c, c * ((k \div c + 1) \div 2))}} : TRUE

\* a * 2^k
BigMulPow2(a, k) == BigMulPow(a, 2, 17, k)

\* a * 10^k
BigMulPow10(a, k) ==
    IF a = <<>> THEN <<>>
    ELSE [i \in 1..(k \div 4) |-> 0] \o BigMulSmall(a, 10^(k % 4))

\* a * b, limb after limb of b
BigMul(a, b) ==
    LET RECURSIVE Rows(_, _)
        Rows(lo, hi) ==
            IF lo = hi
            THEN (IF b[lo] = 0 THEN <<>>
                  ELSE [i \in 1..(lo - 1) |-> 0] \o BigMulSmall(a, b[lo]))
            ELSE BigAdd(Rows(lo, (lo + hi) \div 2), Rows((lo + hi) \div 2 + 1, hi))
    IN  IF a = <<>> \/ b = <<>> THEN <<>> ELSE Rows(1, Len(b))

\* the bit is appended to the quotient st.q, and st.r is twice what is left
DivPut(st, bit) ==
    [q |-> BigDouble(st.q, bit),
     r |-> BigDouble(IF bit = 1 THEN BigSub(st.r, st.t) ELSE st.r, 0),
     t |-> st.t]

\* one bit of a quotient by st.t
DivStep(st) == DivPut(st, IF BigCmp(st.r, st.t) >= 0 THEN 1 ELSE 0)

\* k bits of a quotient: the first half of them, then the rest
RECURSIVE DivSteps(_, _)
DivSteps(st, k) ==
    IF k = 1 THEN DivStep(st)
    ELSE CHOOSE r \in {DivSteps(x, k - k \div 2) : x \in {DivSteps(st, k \div 2)}} : TRUE

\* the quotient q of a by b, for a < b * 2^n, and r and t with r / t twice
\* the part of a / b that is left: 2 * (a - q * b) / b
BigDiv(a, b, n) ==
    CHOOSE h \in {DivSteps(st, n) : st \in {[q |-> <<>>, r |-> a, t |-> BigMulPow2(b, n - 1)]}} :
        TRUE

----------------------------------------------------------------------------
(* Python numbers.                                                         *)
(*                                                                         *)
(* A number is a record [t, neg, digs, e]: t is "int", "float", "inf" or   *)
(* "nan", neg is its sign, digs the decimal digits of its magnitude        *)
(* without leading zeros ("0" for zero) and e the power of ten they are    *)
(* multiplied with.  An int has e = 0.  A float is an IEEE 754 double; its *)
(* digs and e are those of its repr, the shortest digits that round to it, *)
(* without trailing zeros.                                                 *)

\* the digit of two strings of one length at which they differ first
FirstDiff(x, y) ==
    CHOOSE i \in 1..Len(x) :
        /\ SubSeq(x, i, i) # SubSeq(y, i, i)
        /\ SubSeq(x, 1, i - 1) = SubSeq(y, 1, i - 1)

\* the order of two different digit strings of one length by their digit d
CmpAt(x, y, d) ==
    IF DigitVal(SubSeq(x, d, d)) < DigitVal(SubSeq(y, d, d)) THEN -1 ELSE 1

\* the order of two digit strings of one length
CmpSameLen(x, y) == IF x = y THEN 0 ELSE CmpAt(x, y, FirstDiff(x, y))

\* the order of two digit strings read as fractions 0.d1d2...: -1, 0 or 1
CmpDigits(a, b) ==
    CmpSameLen(a \o Zeros(Len(b) - Len(a)), b \o Zeros(Len(a) - Len(b)))

\* the digit string of the number after the one s writes
IncDigits(s) ==
    LET n == Len(s)
        \* the nines s ends with
        k == CHOOSE j \in 0..n :
                /\ j = n \/ SubSeq(s, n - j, n - j) # "9"
                /\ SubSeq(s, n - j + 1, n) = Repeat("9", j)
    IN  IF k = n THEN "1" \o Zeros(k)
        ELSE SubSeq(s, 1, n - k - 1) \o Digits[DigitVal(SubSeq(s, n - k, n - k)) + 2]
                \o Zeros(k)

Two52 == <<496, 2737, 5996, 4503>>      \* 2^52

Two53 == <<992, 5474, 1992, 9007>>      \* 2^53

MinExp == -1074           \* the exponent of the smallest double, 2^-1074

MaxExp == 971             \* the largest double is (2^53 - 1) * 2^971

\* a / b * 2^e as a fraction with 2^52 <= a / b < 2^53, or e = MinExp; t is
\* b * 2^52
RECURSIVE Scale(_, _, _)
ScaleBy(a, b, e, t) ==
    IF BigCmp(a, t) < 0
    THEN (IF e > MinExp THEN Scale(BigDouble(a, 0), b, e - 1)
          ELSE [a |-> a, b |-> b, e |-> e])
    ELSE IF BigCmp(a, BigDouble(t, 0)) >= 0 THEN Scale(a, BigDouble(b, 0), e + 1)
    ELSE [a |-> a, b |-> b, e |-> e]

Scale(a, b, e) == ScaleBy(a, b, e, BigMulPow2(b, 52))

\* the power of two below digs * 10^e, from its first four digits, and
\* MinExp at the least
Pow2Below(digs, e) ==
    LET lead == IntOf(SubSeq(digs \o "000", 1, 4))
        k    == CHOOSE j \in 9..13 : 2^j <= lead /\ lead < 2^(j + 1)
        g    == k + ((Len(digs) + e - 4) * 3321928) \div 1000000 - 52
    IN  IF g < MinExp THEN MinExp ELSE g

\* the quotient q * 2^e rounded up: 2^53 is 2^52 * 2
RoundedUp(q, e) ==
    IF q = Two53 THEN [q |-> Two52, b |-> e + 1, dir |-> 1]
    ELSE [q |-> q, b |-> e, dir |-> 1]

\* the quotient h.q * 2^e rounded to the nearest, ties to the even one: c
\* is the order of what is left and a half
RoundHalfEven(h, e, c) ==
    IF h.r = <<>> THEN [q |-> h.q, b |-> e, dir |-> 0]
    ELSE IF c > 0 \/ (c = 0 /\ h.q # <<>> /\ h.q[1] % 2 = 1)
         THEN RoundedUp(BigAdd(h.q, <<1>>), e)
    ELSE [q |-> h.q, b |-> e, dir |-> -1]

RoundQuotient(h, e) == RoundHalfEven(h, e, BigCmp(h.r, h.t))

RoundScaled(sc) == RoundQuotient(BigDiv(sc.a, sc.b, 53), sc.e)

\* num / den rounded, 2^b0 the power of two below it: the fraction is
\* scaled before it is divided
RoundFraction(num, den, b0) ==
    CHOOSE r \in {RoundScaled(sc)
                    : sc \in {Scale(BigMulPow2(num, IF b0 < 0 THEN -b0 ELSE 0),
                                    BigMulPow2(den, IF b0 > 0 THEN b0 ELSE 0), b0)}} : TRUE

\* the double nearest to digs * 10^e, ties to the even one, as q * 2^b with
\* q < 2^53, for nonzero digs whose first digit stands between 10^-325 and
\* 10^310; dir tells whether the double is below (-1), at (0) or above (1)
\* the number.  b > MaxExp: the number rounds beyond the largest double
RoundToDouble(digs, e) ==
    RoundFraction(BigMulPow10(BigOfDigits(digs), IF e > 0 THEN e ELSE 0),
                  BigMulPow10(<<1>>, IF e < 0 THEN -e ELSE 0),
                  Pow2Below(digs, e))

\* the order of pre * 10^p and the number x writes
CmpScaled(pre, p, x) ==
    IF Len(pre) + p # Len(x)
    THEN (IF Len(pre) + p < Len(x) THEN -1 ELSE 1)
    ELSE CmpDigits(pre, x)

\* of the multiples f * 10^p and c * 10^p around a number, the one nearest
\* to it of those within the interval around it, the even one of two as
\* near, or "": cmp is the order of f * 10^p and the lower end, of c * 10^p
\* and the upper end, and of a half of 10^p and what the number has beyond
\* f * 10^p; the ends are within when even
CandOf(f, c, cmp, even) ==
    LET fok == f # "" /\ (cmp[1] > 0 \/ (cmp[1] = 0 /\ even))
        cok == cmp[2] < 0 \/ (cmp[2] = 0 /\ even)
    IN  IF fok /\ cok
        THEN (IF \/ cmp[3] < 0
                 \/ cmp[3] = 0 /\ f # "" /\ DigitVal(SubSeq(f, Len(f), Len(f))) % 2 = 1
              THEN c ELSE f)
        ELSE IF fok THEN f
        ELSE IF cok THEN c
        ELSE ""

\* f is the digits of nb[2] but the last p, c the number after f
CandAround(f, c, nb, even, p) ==
    CandOf(f, c,
           SubSeq([j \in 1..3 |->
                    CmpScaled(<<f, c, "5">>[j], <<p, p, p - 1>>[j],
                              <<nb[1], nb[3], SubSeq(nb[2], Len(f) + 1, Len(nb[2]))>>[j])],
                  1, 3),
           even)

\* the multiple of 10^p for the number nb[2] and the interval from nb[1] to
\* nb[3], as its digits without the p zeros, or ""
Cand(nb, even, p) ==
    CandAround(SubSeq(nb[2], 1, Len(nb[2]) - p),
               IncDigits(SubSeq(nb[2], 1, Len(nb[2]) - p)), nb, even, p)

\* the candidate of the highest power of ten that has one, cands those of
\* the powers from 10^p0 on
Highest(cands, p0) ==
    LET top == CHOOSE i \in 1..Len(cands) :
                    cands[i] # "" /\ (i = Len(cands) \/ cands[i + 1] = "")
    IN  [digs |-> cands[top], p |-> p0 + top - 1]

\* the fewest digits for the number nb[2] within the interval from nb[1] to
\* nb[3], from the power of ten p0 on: 17 digits always have a multiple
WithinFrom(nb, even, p0) ==
    Highest(SubSeq([i \in 1..(Len(nb[2]) - p0 + 1) |-> Cand(nb, even, p0 + i - 1)],
                   1, Len(nb[2]) - p0 + 1), p0)

Within(nb, even) == WithinFrom(nb, even, IF Len(nb[2]) > 17 THEN Len(nb[2]) - 17 ELSE 0)

\* the digits of pw * (m + 0 or 1), pw * (m + 2) and pw * (m + 4): a double
\* 4 * q = m + 2 quarters of its unit, and the halves of the way to the
\* doubles next to it; the one below a power of two is half as far
Neighbours(m, pw, edge) ==
    SubSeq([j \in 1..3 |->
                DigitsOfBig(BigMul(pw, BigAdd(m, <<(<<IF edge THEN 1 ELSE 0, 2, 4>>)[j]>>)))],
           1, 3)

\* r.digs * 10^r.p, of a number that was multiplied by 10^-s for s < 0,
\* without its trailing zeros
Unscaled(r, s) ==
    [digs |-> SubSeq(r.digs, 1, Len(r.digs) - TrailingZeros(r.digs)),
     e    |-> r.p + TrailingZeros(r.digs) + (IF s >= 0 THEN 0 ELSE s)]

\* repr of the double q * 2^b, q > 0: the fewest digits that round to it
\* and, of those, the nearest to it (_Py_dg_dtoa in mode 0), as digs * 10^e.
\* The quarters of the unit are multiples of 2^(b - 2): of 10^(b - 2), when
\* b < 2, with 5^(2 - b)
ShortestDigits(q, b) ==
    Unscaled(Within(Neighbours(BigSub(BigMulSmall(q, 4), <<2>>),
                               BigMulPow(<<1>>, IF b >= 2 THEN 2 ELSE 5,
                                         IF b >= 2 THEN 17 ELSE 7, Abs(b - 2)),
                               q = Two52 /\ b > MinExp),
                    q[1] % 2 = 0),
             b - 2)

\* the int the digit string digs writes
PyIntOf(neg, digs) == [t |-> "int", neg |-> neg, digs |-> digs, e |-> 0]

\* the int n
PyInt(n) == PyIntOf(n < 0, ToString(Abs(n)))

PyInf(neg) == [t |-> "inf", neg |-> neg, digs |-> "1", e |-> 0]

PyNan == [t |-> "nan", neg |-> FALSE, digs |-> "0", e |-> 0]

PyZero(neg) == [t |-> "float", neg |-> neg, digs |-> "0", e |-> 0]

\* the float digs * 10^e, for digs that are those of a repr but for the k
\* zeros at their end
PyFloatOf(neg, digs, e, k) ==
    [t |-> "float", neg |-> neg, digs |-> SubSeq(digs, 1, Len(digs) - k), e |-> e + k]

\* the float with the digits sh of a repr
FloatOfDigits(neg, sh) == [t |-> "float", neg |-> neg, digs |-> sh.digs, e |-> sh.e]

\* the double r of RoundToDouble as a float
Double(neg, r) ==
    IF r.b > MaxExp THEN PyInf(neg)
    ELSE IF r.q = <<>> THEN PyZero(neg)
    ELSE FloatOfDigits(neg, ShortestDigits(r.q, r.b))

\* the double nearest to (-1)^neg * d * 10^e, for d without leading zeros
\* that ends with k zeros
FloatOfDecimal(neg, d, e, k) ==
    IF d = "0" THEN PyZero(neg)
    ELSE IF Len(d) - k <= 15 /\ Len(d) + e >= -306 /\ Len(d) + e <= 308
         THEN PyFloatOf(neg, d, e, k)
    ELSE IF Len(d) + e > 310 THEN PyInf(neg)
    ELSE IF Len(d) + e < -324 THEN PyZero(neg)
    ELSE Double(neg, RoundToDouble(SubSeq(d, 1, Len(d) - k), e + k))

\* the double nearest to (-1)^neg * d * 10^e, for d without leading zeros
FloatOfStripped(neg, d, e) == FloatOfDecimal(neg, d, e, TrailingZeros(d))

\* the double nearest to (-1)^neg * digs * 10^e, ties to even: inf from
\* 2^1024 - 2^970 on, zero up to 2^-1075.  Up to 15 significant digits of a
\* normal double are the digits of its repr (DBL_DIG)
MkFloat(neg, digs, e) ==
    FloatOfStripped(neg, StripLeadingZeros(IF digs = "" THEN "0" ELSE digs), e)

\* the float n.0
PyFloat(n) ==
    IF n = 0 THEN PyZero(FALSE)
    ELSE PyFloatOf(n < 0, ToString(Abs(n)), 0, TrailingZeros(ToString(Abs(n))))

\* float(x) of a number: of an int the nearest double; inf stands for the
\* OverflowError of an int from 2^1024 - 2^970 on
FloatOf(x) == IF x.t = "int" THEN MkFloat(x.neg, x.digs, 0) ELSE x

IsZero(x) == x.t \in {"int", "float"} /\ x.digs = "0"

\* bool(x)
Truthy(x) == ~IsZero(x)

\* the place of the decimal point: the magnitude is 0.digs * 10^Decpt
Decpt(x) == IF x.t = "inf" THEN 1000 ELSE Len(x.digs) + x.e

Sgn(x) == IF IsZero(x) THEN 0 ELSE IF x.neg THEN -1 ELSE 1

\* the order of two ints or of two floats, neither nan: -1, 0 or 1 (the
\* order of the doubles is the order of their shortest digits)
CmpSameType(x, y) ==
    IF Sgn(x) # Sgn(y) THEN (IF Sgn(x) < Sgn(y) THEN -1 ELSE 1)
    ELSE IF Sgn(x) = 0 THEN 0
    ELSE Sgn(x) * (IF Decpt(x) # Decpt(y)
                   THEN (IF Decpt(x) < Decpt(y) THEN -1 ELSE 1)
                   ELSE CmpDigits(x.digs, y.digs))

\* the first of two orders that is not 0
OrderBy(c, d) == IF c # 0 THEN c ELSE d

\* the order of the int x and the float y by their exact values.  An int
\* of up to 15 digits is a double, and the order is that of the digits; the
\* order of a longer int is that of float(x) and y, and where these are
\* equal, that of x and its double
CmpIntFloat(x, y) ==
    IF y.t = "inf" THEN -Sgn(y)
    ELSE IF Len(x.digs) <= 15 THEN CmpSameType(x, y)
    ELSE OrderBy(CmpSameType(FloatOf(x), y), -Sgn(x) * RoundToDouble(x.digs, 0).dir)

\* the order of two numbers that are not nan: -1, 0 or 1
NumCmp(x, y) ==
    IF (x.t = "int") = (y.t = "int") THEN CmpSameType(x, y)
    ELSE (IF x.t = "int" THEN 1 ELSE -1)
            * CmpIntFloat(IF x.t = "int" THEN x ELSE y, IF x.t = "int" THEN y ELSE x)

\* x >= y
NumGE(x, y) == x.t # "nan" /\ y.t # "nan" /\ NumCmp(x, y) >= 0

\* x > y
NumGT(x, y) == x.t # "nan" /\ y.t # "nan" /\ NumCmp(x, y) > 0

\* x == y
NumEq(x, y) == x.t # "nan" /\ y.t # "nan" /\ NumCmp(x, y) = 0

\* repr(float): fixed notation when the decimal point lies within the
\* digits or at most 3 zeros before and 16 - len after them, else exponent
FloatStr(x) ==
    LET sign  == IF x.neg THEN "-" ELSE ""
        n     == Len(x.digs)
        decpt == n + x.e
        ex    == decpt - 1
        exs   == ToString(Abs(ex))
    IN  IF x.t = "nan" THEN "nan"
        ELSE IF x.t = "inf" THEN sign \o "inf"
        ELSE IF x.digs = "0" THEN sign \o "0.0"
        ELSE IF decpt > -4 /\ decpt <= 16
             THEN IF decpt <= 0
                  THEN sign \o "0." \o Repeat("0", -decpt) \o x.digs
                  ELSE IF decpt >= n
                  THEN sign \o x.digs \o Repeat("0", decpt - n) \o ".0"
                  ELSE sign \o SubSeq(x.digs, 1, decpt) \o "." \o SubSeq(x.digs, decpt + 1, n)
        ELSE sign \o SubSeq(x.digs, 1, 1)
                \o (IF n > 1 THEN "." \o SubSeq(x.digs, 2, n) ELSE "")
                \o "e" \o (IF ex < 0 THEN "-" ELSE "+")
                \o (IF Len(exs) < 2 THEN "0" ELSE "") \o exs

\* str(x), as an f-string formats a number
NumStr(x) ==
    IF x.t = "int" THEN (IF x.neg THEN "-" ELSE "") \o x.digs ELSE FloatStr(x)

\* the least int that float() does not take: 2^1024 - 2^970, which rounds
\* to 2^1024
FloatLimit ==
    DigitsOfBig(BigSub(BigMulPow2(<<1>>, 1024), BigMulPow2(<<1>>, 970)))

\* f"{x:,.2f}": an int is formatted as its float, and one beyond the
\* doubles raises OverflowError
FormatRaises(x) ==
    /\ x.t = "int"
    /\ \/ Len(x.digs) > 309
       \/ Len(x.digs) = 309 /\ CmpDigits(x.digs, FloatLimit) >= 0

\* an int of SQLite is one of -2^63 .. 2^63 - 1
FitsInt64(x) ==
    \/ Len(x.digs) < 19
    \/ /\ Len(x.digs) = 19
       /\ CmpDigits(x.digs, IF x.neg THEN "9223372036854775808"
                                     ELSE "9223372036854775807") <= 0

\* sqlite3 binds a Python int as an INTEGER, and raises OverflowError for
\* one that is none of SQLite
BindRaises(x) == x.t = "int" /\ ~FitsInt64(x)

\* str(e) of that OverflowError
BindErrorText == "Python int too large to convert to SQLite INTEGER"

\* the value SQLite stores in a REAL column for a number it binds and gives
\* when the row is read: the float, of an int the nearest double, 0.0 for
\* -0.0 and NULL for nan
Real(x) ==
    IF x.t = "nan" THEN [t |-> "null"]
    ELSE IF IsZero(x) THEN PyZero(FALSE)
    ELSE FloatOf(x)

\* the underscores of a numeric text stand between two digits
UnderscoresOk(s) ==
    \A i \in 1..Len(s) :
        SubSeq(s, i, i) = "_" =>
            /\ i > 1 /\ IsDigit(SubSeq(s, i - 1, i - 1))
            /\ i < Len(s) /\ IsDigit(SubSeq(s, i + 1, i + 1))

RECURSIVE RemoveUnderscores(_)
RemoveUnderscores(s) ==
    IF Len(s) <= 1 THEN (IF s = "_" THEN "" ELSE s)
    ELSE RemoveUnderscores(SubSeq(s, 1, Len(s) \div 2))
            \o RemoveUnderscores(SubSeq(s, Len(s) \div 2 + 1, Len(s)))

\* the decimal digits of the scripts other than ASCII that can be written
\* in a text here, each script from its zero to its nine
ScriptDigits ==
    <<"۰۱۲۳۴۵۶۷۸۹",
      "߀߁߂߃߄߅߆߇߈߉",
      "০১২৩৪৫৬৭৮৯",
      "૦૧૨૩૪૫૬૭૮૯",
      "௦௧௨௩௪௫௬௭௮௯",
      "೦೧೨೩೪೫೬೭೮೯",
      "෦෧෨෩෪෫෬෭෮෯",
      "໐໑໒໓໔໕໖໗໘໙",
      "႐႑႒႓႔႕႖႗႘႙",
      "០១២៣៤៥៦៧៨៩",
      "᧐᧑᧒᧓᧔᧕᧖᧗᧘᧙",
      "᪀᪁᪂᪃᪄᪅᪆᪇᪈᪉",
      "᪐᪑᪒᪓᪔᪕᪖᪗᪘᪙",
      "᮰᮱᮲᮳᮴᮵᮶᮷᮸᮹",
      "꣐꣑꣒꣓꣔꣕꣖꣗꣘꣙",
      "꧐꧑꧒꧓꧔꧕꧖꧗꧘꧙",
      "꧰꧱꧲꧳꧴꧵꧶꧷꧸꧹",
      "꯰꯱꯲꯳꯴꯵꯶꯷꯸꯹">>

\* the ASCII digit that float() reads for each of these characters
DecimalOf ==
    [c \in {SubSeq(ScriptDigits[j], d, d) : j \in DOMAIN ScriptDigits, d \in 1..10} |->
        Digits[CHOOSE d \in 1..10 :
                  \E j \in DOMAIN ScriptDigits : SubSeq(ScriptDigits[j], d, d) = c]]

\* s with its decimal digits of any script as ASCII digits, as float() reads
\* a text
RECURSIVE AsciiDigits(_)
AsciiDigits(s) ==
    IF Len(s) <= 1 THEN (IF s \in DOMAIN DecimalOf THEN DecimalOf[s] ELSE s)
    ELSE AsciiDigits(SubSeq(s, 1, Len(s) \div 2))
            \o AsciiDigits(SubSeq(s, Len(s) \div 2 + 1, Len(s)))

\* the first position of one of the characters cs in s, or 0
FirstOf(s, cs) ==
    LET at == {i \in 1..Len(s) : SubSeq(s, i, i) \in cs}
    IN  IF at = {} THEN 0 ELSE CHOOSE i \in at : \A j \in at : i <= j

\* the exponent of a numeric text: one of more than 9 digits after its
\* leading zeros is read as 1100000000
ExpOf(neg, digs) ==
    LET d == StripLeadingZeros(digs)
    IN  IF Len(d) > 9 THEN (IF neg THEN -1100000000 ELSE 1100000000)
        ELSE (IF neg THEN -IntOf(d) ELSE IntOf(d))

\* t begins with a minus sign
IsMinus(t) == t # "" /\ SubSeq(t, 1, 1) = "-"

\* t without the sign it begins with
Unsigned(t) == IF t # "" /\ SubSeq(t, 1, 1) \in {"+", "-"} THEN SubSeq(t, 2, Len(t)) ELSE t

\* the part of t before and after the first of the characters cs, which is
\* None when t has none of them
Before(t, cs) == IF FirstOf(t, cs) = 0 THEN t ELSE SubSeq(t, 1, FirstOf(t, cs) - 1)

After(t, cs) == IF FirstOf(t, cs) = 0 THEN None ELSE Some(SubSeq(t, FirstOf(t, cs) + 1, Len(t)))

\* the float of the digits whole before and frac after the point, with the
\* exponent ex
FloatOfFields(neg, whole, frac, ex) ==
    IF /\ whole \o frac # ""
       /\ \A i \in 1..Len(whole) : IsDigit(SubSeq(whole, i, i))
       /\ \A i \in 1..Len(frac) : IsDigit(SubSeq(frac, i, i))
       /\ (ex # None => IsDigits(Unsigned(ex[1])))
    THEN Some(MkFloat(neg, StripLeadingZeros(whole \o frac),
                      IF StripLeadingZeros(whole \o frac) = "0" THEN 0
                      ELSE (IF ex = None THEN 0 ELSE ExpOf(IsMinus(ex[1]), Unsigned(ex[1])))
                                - Len(frac)))
    ELSE None

\* the float of the mantissa man and the exponent ex
FloatOfParts(neg, man, ex) ==
    FloatOfFields(neg, Before(man, {"."}),
                  IF After(man, {"."}) = None THEN "" ELSE After(man, {"."})[1], ex)

\* the float of a text without sign
FloatOfUnsigned(neg, t) ==
    IF Lower(t) \in {"inf", "infinity"} THEN Some(PyInf(neg))
    ELSE IF Lower(t) = "nan" THEN Some(PyNan)
    ELSE FloatOfParts(neg, Before(t, {"e", "E"}), After(t, {"e", "E"}))

\* the float of a text without whitespace around it
FloatOfText(t) ==
    IF ~UnderscoresOk(t) THEN None
    ELSE FloatOfUnsigned(IsMinus(RemoveUnderscores(t)), Unsigned(RemoveUnderscores(t)))

\* float(s) of a text: Some(value), or None for ValueError.  The text is
\* stripped of whitespace and its digits are read in any script; it is an
\* optional sign and inf, infinity or nan in any case, or digits with an
\* optional point and an optional exponent
to_float(s) == FloatOfText(AsciiDigits(StripOf(s, FloatSpace)))

RECURSIVE Orderings(_)
Orderings(S) ==
    IF S = {} THEN {<<>>}
    ELSE UNION {{<<x>> \o o : o \in Orderings(S \ {x})} : x \in S}

----------------------------------------------------------------------------
(* SUPPLIERS *)

SupplierKeys == {"proesi", "lojavale", "seel"}

SUPPLIERS ==
    [proesi   |-> [name |-> "Proesi",
                   base_url |-> "https://www.proesi.com.br",
                   id_prefix |-> ""],
     lojavale |-> [name |-> "Loja Vale",
                   base_url |-> "https://www.lojavale.com.br",
                   id_prefix |-> "LV-"],
     seel     |-> [name |-> "Seel Distribuidora",
                   base_url |-> "https://www.seeldistribuidora.com.br",
                   id_prefix |-> "SE-"]]

----------------------------------------------------------------------------
(* Product *)

OptionalFields == {"description", "category"}

\* Product.to_dict: the None fields are removed
to_dict(p) ==
    [k \in {f \in DOMAIN p : f \notin OptionalFields \/ p[f] # None} |->
        IF k \in OptionalFields THEN p[k][1] ELSE p[k]]

\* dict.get(k, dflt)
Get(d, k, dflt) == IF k \in DOMAIN d THEN d[k] ELSE dflt

\* the text that Product.content_hash digests
HashContent(p) ==
    p.name \o "|" \o NumStr(p.price) \o "|" \o BoolStr(p.inStock) \o "|"
        \o (IF p.description = None THEN "" ELSE p.description[1])

\* Product.content_hash; md5 is taken to be injective on the texts of the model
content_hash(p) == HashContent(p)

----------------------------------------------------------------------------
(* ProductsDB *)

CacheRow(p) ==
    [id |-> p.id, supplier |-> p.supplier, sku |-> p.sku, price |-> Real(p.price),
     content_hash |-> content_hash(p), source_url |-> p.sourceUrl]

\* SELECT * FROM products_cache WHERE supplier = ? AND sku = ?
get_cached_product(c, supplier, sku) ==
    LET rows == {r \in c : r.supplier = supplier /\ r.sku = sku}
    IN  IF rows = {} THEN None ELSE Some(CHOOSE r \in rows : TRUE)

\* update_product_cache raises at the binding of product.price
UpsertRaises(p) == BindRaises(p.price)

\* INSERT OR REPLACE: the rows that conflict on id (PRIMARY KEY) or on
\* (supplier, sku) (UNIQUE) are deleted, then the row is inserted; a call
\* that raises writes nothing
update_product_cache(c, p) ==
    IF UpsertRaises(p) THEN c
    ELSE {r \in c : r.id # p.id /\ ~(r.supplier = p.supplier /\ r.sku = p.sku)}
            \cup {CacheRow(p)}

product_changed(c, p) ==
    LET cached == get_cached_product(c, p.supplier, p.sku)
    IN  IF cached = None THEN TRUE
        ELSE cached[1].content_hash # content_hash(p)

\* INSERT OR REPLACE, one URL after the other
RECURSIVE ReplaceUrls(_, _, _)
ReplaceUrls(t, us, supplier) ==
    IF us = <<>> THEN t
    ELSE LET u == Head(us)
             t1 == {r \in t : r.url # u}
                     \cup {[url |-> u, supplier |-> supplier,
                            status |-> "pending", result |-> NULL]}
         IN  ReplaceUrls(t1, Tail(us), supplier)

\* INSERT OR IGNORE, one URL after the other
RECURSIVE register_urls(_, _, _)
register_urls(t, us, supplier) ==
    IF us = <<>> THEN t
    ELSE LET u == Head(us)
             t1 == IF \E r \in t : r.url = u THEN t
                   ELSE t \cup {[url |-> u, supplier |-> supplier,
                                 status |-> "pending", result |-> NULL]}
         IN  register_urls(t1, Tail(us), supplier)

\* a query that leaves out the status condition
UrlsOfAnyStatus(t, supplier) ==
    {r.url : r \in {x \in t : x.supplier = supplier}}

\* SELECT url FROM urls_progress WHERE supplier = ? AND status = 'pending'
get_pending_urls(t, supplier) ==
    {r.url : r \in {x \in t : x.supplier = supplier /\ x.status = "pending"}}

get_all_urls(t, supplier) ==
    {r.url : r \in {x \in t : x.supplier = supplier}}

mark_url_done(t, url, result) ==
    {IF r.url = url THEN [r EXCEPT !.status = "done", !.result = result] ELSE r
        : r \in t}

\* a call that writes nothing
LeaveRows(t, url, error) == t

\* a call that stores the whole text
MarkErrorUncut(t, url, error) ==
    {IF r.url = url THEN [r EXCEPT !.status = "error", !.result = error] ELSE r
        : r \in t}

mark_url_error(t, url, error) ==
    {IF r.url = url
        THEN [r EXCEPT !.status = "error", !.result = Prefix(error, ErrMax)]
        ELSE r
        : r \in t}

\* a DELETE that also asks for status = 'pending'
ResetPending(t, supplier) ==
    {r \in t : r.supplier # supplier \/ r.status # "pending"}

\* a DELETE without the WHERE clause
ResetAll(t, supplier) == {}

reset_urls(t, supplier) == {r \in t : r.supplier # supplier}

get_progress(t, supplier) ==
    LET total  == Cardinality({r \in t : r.supplier = supplier})
        done   == Cardinality({r \in t : r.supplier = supplier /\ r.status = "done"})
        errors == Cardinality({r \in t : r.supplier = supplier /\ r.status = "error"})
    IN  [total |-> total, done |-> done, errors |-> errors,
         pending |-> total - done - errors]

----------------------------------------------------------------------------
(* What a supplier site serves.                                            *)
(*                                                                         *)
(* A sitemap download is None (all attempts failed) or the list of its     *)
(* <loc> texts.  A page is what one request sequence for a product URL     *)
(* meets: the result of each of the fetch attempts, an error raised        *)
(* outside the handlers of parse_product (None, or its text), and the      *)
(* values the extraction waterfalls end with (name and price None when no  *)
(* source has one; a price is an int or a float).                          *)

MediaSuffixes == {".jpg", ".jpeg", ".png", ".gif", ".webp", ".pdf"}

\* BaseScraper.fetch: the body of the first attempt that succeeds
fetch(responses, body) ==
    IF \E i \in 1..Retries : responses[i] = "ok" THEN Some(body) ELSE None

\* MagazordScraper.get_product_urls
get_product_urls(key, sitemap) ==
    LET xml == fetch(sitemap.responses, sitemap.locs)
    IN  IF xml = None THEN <<>>
        ELSE SelectSeq(xml[1],
                LAMBDA url :
                    /\ StartsWith(url, SUPPLIERS[key].base_url)
                    /\ ~(\E suf \in MediaSuffixes : EndsWith(url, suf))
                    /\ ~Contains(url, "cdn.magazord"))

\* MagazordScraper.parse_product: None, or the Product; None too when the
\* formatting of the price for priceFormatted raises
parse_product(key, url, page) ==
    LET html == fetch(page.responses, page)
    IN  IF html = None THEN None
        ELSE IF page.name = None THEN None
        ELSE IF page.price = None THEN None
        ELSE IF ~Truthy(page.price[1]) THEN None
        ELSE IF FormatRaises(page.price[1]) THEN None
        ELSE Some([id          |-> SUPPLIERS[key].id_prefix \o page.sku,
                   sku         |-> page.sku,
                   name        |-> page.name[1],
                   price       |-> page.price[1],
                   inStock     |-> page.inStock,
                   description |-> page.description,
                   category    |-> page.category,
                   sourceUrl   |-> url,
                   supplier    |-> SUPPLIERS[key].name])

\* the price filter of _process_url: product.price and product.price >= min_price
PriceAccepted(p, min_price) == Truthy(p.price) /\ NumGE(p.price, min_price)

----------------------------------------------------------------------------
(* save_products *)

AbsentFile == [state |-> "absent", products |-> <<>>, totalProducts |-> 0,
               sources |-> {}, categories |-> <<>>]

PartialFile == [AbsentFile EXCEPT !.state = "partial"]

\* In the definitions below, CHOOSE r \in {e(x) : x \in {v}} : TRUE is e(v) with
\* v evaluated once.

\* list.sort(key=name): stable
NameKey(d) == Get(d, "name", "")

\* Python's order on the names of the model
NameOrder == <<"", "a", "a|1.0|True|b", "b", "c", "p", "s">>

NameRank(n) == CHOOSE i \in DOMAIN NameOrder : NameOrder[i] = n

RECURSIVE InsertByName(_, _)
InsertByName(d, s) ==
    IF s = <<>> THEN <<d>>
    ELSE IF NameRank(NameKey(Head(s))) <= NameRank(NameKey(d))
         THEN <<Head(s)>> \o InsertByName(d, Tail(s))
         ELSE <<d>> \o s

\* all_products without the sort
KeepOrder(s) == s

RECURSIVE SortByName(_)
SortByName(s) ==
    IF s = <<>> THEN <<>>
    ELSE CHOOSE r \in {InsertByName(s[Len(s)], front) :
                        front \in {SortByName(SubSeq(s, 1, Len(s) - 1))}} : TRUE

\* category_counts, in the order of first occurrence, then sorted by -count
RECURSIVE CategoryIds(_)
CategoryIds(s) ==
    IF s = <<>> THEN <<>>
    ELSE LET c == Get(s[Len(s)], "category", "")
         IN  CHOOSE r \in {IF c = "" \/ c \in Range(front) THEN front
                           ELSE Append(front, c) :
                                front \in {CategoryIds(SubSeq(s, 1, Len(s) - 1))}} : TRUE

CategoryCount(s, c) ==
    Cardinality({i \in DOMAIN s : Get(s[i], "category", "") = c})

RECURSIVE InsertByCount(_, _)
InsertByCount(e, s) ==
    IF s = <<>> THEN <<e>>
    ELSE IF Head(s).count >= e.count
         THEN <<Head(s)>> \o InsertByCount(e, Tail(s))
         ELSE <<e>> \o s

RECURSIVE SortByCount(_)
SortByCount(s) ==
    IF s = <<>> THEN <<>>
    ELSE CHOOSE r \in {InsertByCount(s[Len(s)], front) :
                        front \in {SortByCount(SubSeq(s, 1, Len(s) - 1))}} : TRUE

\* the categories without the sort by -count
CategoriesAsCounted(all) ==
    CHOOSE r \in {[i \in DOMAIN ids |->
                        [id |-> ids[i], count |-> CategoryCount(all, ids[i])]] :
                        ids \in {CategoryIds(all)}} : TRUE

Categories(all) ==
    CHOOSE r \in {SortByCount([i \in DOMAIN ids |->
                        [id |-> ids[i], count |-> CategoryCount(all, ids[i])]]) :
                        ids \in {CategoryIds(all)}} : TRUE

SourceNames(sources) == {SUPPLIERS[sources[i]].name : i \in DOMAIN sources}

\* a merge that keeps the records of every supplier
KeepAllExisting(f, sources) == IF f.state = "valid" THEN f.products ELSE <<>>

\* the records of the old file that save_products keeps: those of the
\* suppliers that are not updated; none when the file is absent or not JSON
ExistingProducts(f, sources) ==
    IF f.state = "valid"
    THEN SelectSeq(f.products,
            LAMBDA d : Get(d, "supplier", "None") \notin SourceNames(sources))
    ELSE <<>>

\* the catalog object that save_products dumps
CatalogData(existing, new) ==
    CHOOSE data \in
        {[state         |-> "valid",
          products      |-> all,
          totalProducts |-> Len(all),
          sources       |-> {Get(all[i], "supplier", "Desconhecido") : i \in DOMAIN all},
          categories    |-> Categories(all)] :
            all \in {SortByName(existing \o [i \in DOMAIN new |-> to_dict(new[i])])}} :
        TRUE

NoSave == [pc |-> "none", owner |-> "none", w |-> 0, products |-> <<>>, sources |-> <<>>,
           existing |-> <<>>, prior |-> AbsentFile]

NoMerge == [prior |-> AbsentFile, products |-> <<>>, sources |-> <<>>]

\* save_products up to and including open(PRODUCTS_FILE, 'w'), which truncates:
\* the old file is read and filtered, the new content prepared
SaveBegin(owner, w, prods, sources) ==
    /\ sv.pc = "none"
    /\ sv' = [pc |-> "open", owner |-> owner, w |-> w, products |-> prods,
              sources |-> sources,
              existing |-> ExistingProducts(file, sources),
              prior |-> file]
    /\ file' = PartialFile

----------------------------------------------------------------------------
(* The process: main, scrape_all and its pool threads *)

NoOp == [name |-> "none"]

NoArgs == [sources |-> <<>>, min_price |-> PyFloat(0), workers |-> 0,
           incremental |-> FALSE, resume |-> FALSE, test |-> FALSE]

IdleWk == [pc |-> "idle", url |-> "", product |-> None]

CurKey == args.sources[idx]

CurName == SUPPLIERS[CurKey].name

SetOutcome(o, url, kind) ==
    {x \in o : x.url # url} \cup {[url |-> url, kind |-> kind]}

Accepted(la, p) ==
    {x \in la : ~(x.supplier = p.supplier /\ x.sku = p.sku)}
        \cup {[supplier |-> p.supplier, sku |-> p.sku, name |-> p.name,
               price |-> p.price, inStock |-> p.inStock,
               description |-> p.description]}

Init ==
    /\ progress = {}
    /\ cache = {}
    /\ file = AbsentFile
    /\ mpc = "idle"
    /\ args = NoArgs
    /\ idx = 0
    /\ allProducts = <<>>
    /\ exitCode = "none"
    /\ urls = <<>>
    /\ queue = <<>>
    /\ products = <<>>
    /\ lock = 0
    /\ wk = <<>>
    /\ sv = NoSave
    /\ outcome = {}
    /\ flushed = 0
    /\ lastAccepted = {}
    /\ smFetched = FALSE
    /\ startFile = AbsentFile
    /\ lastMerge = NoMerge
    /\ op = NoOp
    /\ writes = <<>>
    /\ okLog = <<>>
    /\ flushes = <<>>

\* main up to the supplier loop, for a scrape invocation
MainStart(a) ==
    /\ mpc = "idle"
    /\ sv.pc = "none"
    /\ mpc' = "loop"
    /\ args' = a
    /\ idx' = 1
    /\ allProducts' = <<>>
    /\ exitCode' = "running"
    /\ startFile' = file
    /\ outcome' = {}
    /\ lastMerge' = NoMerge
    /\ UNCHANGED <<progress, cache, file, urls, queue, products, lock, wk, sv,
                   flushed, lastAccepted, smFetched, op, writes, okLog, flushes>>

\* main: limit = 10 if args.test else None; scrape_all: urls[:limit]
Limit(us) == IF args.test THEN SubSeq(us, 1, Min(TestLimit, Len(us))) ELSE us

\* scrape_all from "products = []" to the submission of the tasks
BeginPool(us) ==
    /\ urls' = us
    /\ queue' = us
    /\ products' = <<>>
    /\ lock' = 0
    /\ wk' = [w \in 1..args.workers |-> IdleWk]
    /\ flushed' = 0
    /\ writes' = [w \in 1..args.workers |-> -1]
    /\ okLog' = <<>>
    /\ flushes' = <<>>
    /\ mpc' = "pool"

\* whether the download of the sitemap that gave the URLs us failed
SitemapFailed(Sitemaps, us) ==
    {fetch(sm.responses, sm.locs) = None :
        sm \in {x \in Sitemaps[CurKey] : get_product_urls(CurKey, x) = us}}

\* the URLs that the resume branch of scrape_all may end with: the pending
\* rows in the order the query returns them, nothing, or the sitemap's URLs
ResumeSources(Sitemaps) ==
    LET pend == get_pending_urls(progress, CurName)
        all  == get_all_urls(progress, CurName)
    IN  IF pend # {} THEN Orderings(pend)
        ELSE IF all # {} THEN {<<>>}
        ELSE {get_product_urls(CurKey, sm) : sm \in Sitemaps[CurKey]}

\* scrape_all(resume=True): URL sourcing
ScrapeResume(Sitemaps) ==
    /\ mpc = "loop"
    /\ idx <= Len(args.sources)
    /\ args.resume
    /\ LET pend == get_pending_urls(progress, CurName)
           all  == get_all_urls(progress, CurName)
       IN  \E us \in ResumeSources(Sitemaps) :
             /\ progress' = IF pend = {} /\ all = {}
                            THEN register_urls(progress, us, CurName)
                            ELSE progress
             /\ smFetched' = (pend = {} /\ all = {})
             /\ \E failed \in (IF pend = {} /\ all = {}
                               THEN SitemapFailed(Sitemaps, us) ELSE {FALSE}) :
                   outcome' = IF failed
                              THEN SetOutcome(outcome, CurKey, "sitemap_failed")
                              ELSE outcome
             /\ IF pend = {} /\ all # {}
                THEN /\ idx' = idx + 1       \* return []
                     /\ UNCHANGED <<mpc, urls, queue, products, lock, wk, flushed,
                                    writes, okLog, flushes>>
                ELSE /\ BeginPool(Limit(us))
                     /\ UNCHANGED idx
    /\ UNCHANGED <<cache, file, args, allProducts, exitCode, sv,
                   lastAccepted, startFile, lastMerge, op>>

\* scrape_all(resume=False): get_product_urls, then db.reset_urls
ScrapeFresh(Sitemaps) ==
    /\ mpc = "loop"
    /\ idx <= Len(args.sources)
    /\ ~args.resume
    /\ \E sm \in Sitemaps[CurKey] :
          /\ urls' = get_product_urls(CurKey, sm)
          /\ outcome' = IF fetch(sm.responses, sm.locs) = None
                        THEN SetOutcome(outcome, CurKey, "sitemap_failed")
                        ELSE outcome
    /\ progress' = reset_urls(progress, CurName)
    /\ smFetched' = TRUE
    /\ mpc' = "register"
    /\ UNCHANGED <<cache, file, args, idx, allProducts, exitCode, queue,
                   products, lock, wk, sv, flushed, lastAccepted,
                   startFile, lastMerge, op, writes, okLog, flushes>>

\* scrape_all(resume=False): db.register_urls, truncation, submission
ScrapeRegister ==
    /\ mpc = "register"
    /\ progress' = register_urls(progress, urls, CurName)
    /\ BeginPool(Limit(urls))
    /\ UNCHANGED <<cache, file, args, idx, allProducts, exitCode, sv, outcome,
                   lastAccepted, smFetched, startFile, lastMerge, op>>

\* a free pool thread takes the next submitted task: process_and_collect(url)
WTake(w) ==
    /\ mpc = "pool"
    /\ wk[w].pc = "idle"
    /\ queue # <<>>
    /\ queue' = Tail(queue)
    /\ wk' = [wk EXCEPT ![w] = [pc |-> "fetch", url |-> Head(queue), product |-> None]]
    /\ writes' = [writes EXCEPT ![w] = 0]
    /\ UNCHANGED <<progress, cache, file, mpc, args, idx, allProducts, exitCode,
                   urls, products, lock, sv, outcome, flushed, lastAccepted,
                   smFetched, startFile, lastMerge, op, okLog, flushes>>

\* _process_url from its start (the download, parse_product and the price
\* filter) to its first ProductsDB call that writes: an update_product_cache
\* that raises leaves the store as it is and the handler marks the error
WProcess(w, Pages) ==
    /\ mpc = "pool"
    /\ wk[w].pc = "fetch"
    /\ LET url == wk[w].url
       IN  \E page \in Pages[url] :
            LET parsed == IF page.raises # None THEN None
                          ELSE parse_product(CurKey, url, page)
                kind ==
                    IF page.raises # None THEN "exception"
                    ELSE IF fetch(page.responses, page) = None THEN "fetch_failed"
                    ELSE IF parsed = None THEN "no_data"
                    ELSE IF ~PriceAccepted(parsed[1], args.min_price) THEN "below"
                    ELSE IF args.incremental
                         THEN IF product_changed(cache, parsed[1])
                              THEN "changed" ELSE "unchanged"
                    ELSE IF UpsertRaises(parsed[1]) THEN "exception"
                    ELSE "new"
                \* str(e) in the handler of _process_url
                text == IF page.raises # None THEN page.raises[1] ELSE BindErrorText
            IN  /\ progress' =
                     CASE kind = "exception" ->
                            mark_url_error(progress, url, text)
                       [] kind \in {"fetch_failed", "no_data"} ->
                            mark_url_done(progress, url, "no_data")
                       [] kind = "below" ->
                            mark_url_done(progress, url,
                                "price_below_" \o FloatStr(args.min_price))
                       [] OTHER -> progress
                /\ cache' = IF kind = "new"
                            THEN update_product_cache(cache, parsed[1])
                            ELSE cache
                /\ lastAccepted' = IF kind = "new"
                                   THEN Accepted(lastAccepted, parsed[1])
                                   ELSE lastAccepted
                /\ outcome' = IF kind \in {"exception", "fetch_failed", "no_data", "below"}
                              THEN SetOutcome(outcome, url, kind)
                              ELSE outcome
                /\ wk' = [wk EXCEPT ![w] =
                     CASE kind = "new" ->
                            [pc |-> "mark_ok", url |-> url, product |-> parsed]
                       [] kind = "changed" ->
                            [pc |-> "upsert", url |-> url, product |-> parsed]
                       [] kind = "unchanged" ->
                            [pc |-> "mark_unchanged", url |-> url, product |-> parsed]
                       [] OTHER -> IdleWk]
                /\ writes' = [writes EXCEPT ![w] =
                     IF kind \in {"exception", "fetch_failed", "no_data", "below"}
                     THEN 1 ELSE 0]
    /\ UNCHANGED <<file, mpc, args, idx, allProducts, exitCode, urls, queue, products,
                   lock, sv, flushed, smFetched, startFile, lastMerge, op, okLog, flushes>>

\* a return without the status write
WSkipUnchanged(w) ==
    /\ mpc = "pool"
    /\ wk[w].pc = "mark_unchanged"
    /\ wk' = [wk EXCEPT ![w] = IdleWk]
    /\ UNCHANGED <<progress, cache, file, mpc, args, idx, allProducts, exitCode,
                   urls, queue, products, lock, sv, outcome, flushed, lastAccepted,
                   smFetched, startFile, lastMerge, op, writes, okLog, flushes>>

\* _process_url: db.mark_url_done(url, 'unchanged'); return None
WMarkUnchanged(w) ==
    /\ mpc = "pool"
    /\ wk[w].pc = "mark_unchanged"
    /\ progress' = mark_url_done(progress, wk[w].url, "unchanged")
    /\ outcome' = SetOutcome(outcome, wk[w].url, "unchanged")
    /\ wk' = [wk EXCEPT ![w] = IdleWk]
    /\ writes' = [writes EXCEPT ![w] = @ + 1]
    /\ UNCHANGED <<cache, file, mpc, args, idx, allProducts, exitCode, urls,
                   queue, products, lock, sv, flushed, lastAccepted, smFetched,
                   startFile, lastMerge, op, okLog, flushes>>

\* _process_url: db.update_product_cache(product), after the change check;
\* when it raises, the handler: db.mark_url_error(url, str(e)); return None
WUpsert(w) ==
    /\ mpc = "pool"
    /\ wk[w].pc = "upsert"
    /\ cache' = update_product_cache(cache, wk[w].product[1])
    /\ IF UpsertRaises(wk[w].product[1])
       THEN /\ progress' = mark_url_error(progress, wk[w].url, BindErrorText)
            /\ outcome' = SetOutcome(outcome, wk[w].url, "exception")
            /\ wk' = [wk EXCEPT ![w] = IdleWk]
            /\ writes' = [writes EXCEPT ![w] = @ + 1]
            /\ UNCHANGED lastAccepted
       ELSE /\ lastAccepted' = Accepted(lastAccepted, wk[w].product[1])
            /\ wk' = [wk EXCEPT ![w].pc = "mark_ok"]
            /\ UNCHANGED <<progress, outcome, writes>>
    /\ UNCHANGED <<file, mpc, args, idx, allProducts, exitCode, urls,
                   queue, products, lock, sv, flushed, smFetched,
                   startFile, lastMerge, op, okLog, flushes>>

\* _process_url: db.mark_url_done(url, 'ok'); return product
WMarkOk(w) ==
    /\ mpc = "pool"
    /\ wk[w].pc = "mark_ok"
    /\ progress' = mark_url_done(progress, wk[w].url, "ok")
    /\ outcome' = SetOutcome(outcome, wk[w].url, "ok")
    /\ wk' = [wk EXCEPT ![w].pc = "append"]
    /\ writes' = [writes EXCEPT ![w] = @ + 1]
    /\ okLog' = Append(okLog, wk[w].product[1])
    /\ UNCHANGED <<cache, file, mpc, args, idx, allProducts, exitCode, urls,
                   queue, products, lock, sv, flushed, lastAccepted, smFetched,
                   startFile, lastMerge, op, flushes>>

\* an append that loses the records appended before
WAppendLost(w) ==
    /\ mpc = "pool"
    /\ wk[w].pc = "append"
    /\ lock = 0
    /\ products' = <<wk[w].product[1]>>
    /\ wk' = [wk EXCEPT ![w] = IdleWk]
    /\ UNCHANGED <<progress, cache, file, mpc, args, idx, allProducts, exitCode,
                   urls, queue, lock, sv, outcome, flushed, lastAccepted,
                   smFetched, startFile, lastMerge, op, writes, okLog, flushes>>

\* the entry of flushes for an append by thread w that made count records
Crossing(w, count) == [count |-> count, w |-> w, calls |-> 0, size |-> 0]

\* an append whose thread does not go on to save_callback
WAppendWithoutFlush(w) ==
    /\ mpc = "pool"
    /\ wk[w].pc = "append"
    /\ lock = 0
    /\ products' = Append(products, wk[w].product[1])
    /\ wk' = [wk EXCEPT ![w] = IdleWk]
    /\ flushes' = IF Len(products') % SaveInterval = 0
                  THEN Append(flushes, Crossing(w, Len(products')))
                  ELSE flushes
    /\ UNCHANGED <<progress, cache, file, mpc, args, idx, allProducts, exitCode,
                   urls, queue, lock, sv, outcome, flushed, lastAccepted,
                   smFetched, startFile, lastMerge, op, writes, okLog>>

\* process_and_collect: with products_lock: products.append(product); count = len(products)
WAppend(w) ==
    /\ mpc = "pool"
    /\ wk[w].pc = "append"
    /\ lock = 0
    /\ products' = Append(products, wk[w].product[1])
    /\ wk' = [wk EXCEPT ![w] =
                IF Len(products') % SaveInterval = 0
                THEN [wk[w] EXCEPT !.pc = "flush"]
                ELSE IdleWk]
    /\ flushes' = IF Len(products') % SaveInterval = 0
                  THEN Append(flushes, Crossing(w, Len(products')))
                  ELSE flushes
    /\ UNCHANGED <<progress, cache, file, mpc, args, idx, allProducts, exitCode,
                   urls, queue, lock, sv, outcome, flushed, lastAccepted,
                   smFetched, startFile, lastMerge, op, writes, okLog>>

\* process_and_collect: with products_lock: save_callback(list(products), ...),
\* that is incremental_save: save_products(prods, [source]); up to the open
WFlush(w) ==
    /\ mpc = "pool"
    /\ wk[w].pc = "flush"
    /\ lock = 0
    /\ lock' = w
    /\ SaveBegin("worker", w, products, <<CurKey>>)
    /\ wk' = [wk EXCEPT ![w].pc = "saving"]
    /\ flushes' = [i \in DOMAIN flushes |->
                     IF flushes[i].w = w /\ \A j \in DOMAIN flushes :
                                               flushes[j].w = w => j <= i
                     THEN [flushes[i] EXCEPT !.calls = @ + 1, !.size = Len(products)]
                     ELSE flushes[i]]
    /\ UNCHANGED <<progress, cache, mpc, args, idx, allProducts, exitCode, urls,
                   queue, products, outcome, flushed, lastAccepted, smFetched,
                   startFile, lastMerge, op, writes, okLog>>

\* scrape_all: every future is done; return products.  main: all_products.extend
PoolDone ==
    /\ mpc = "pool"
    /\ queue = <<>>
    /\ \A w \in DOMAIN wk : wk[w].pc = "idle"
    /\ allProducts' = allProducts \o products
    /\ idx' = idx + 1
    /\ mpc' = "loop"
    /\ urls' = <<>>
    /\ products' = <<>>
    /\ wk' = <<>>
    /\ flushed' = 0
    /\ writes' = <<>>
    /\ okLog' = <<>>
    /\ flushes' = <<>>
    /\ UNCHANGED <<progress, cache, file, args, exitCode, queue, lock, sv,
                   outcome, lastAccepted, smFetched, startFile, lastMerge, op>>

\* main after the supplier loop without the "if not all_products" return
MainFinishAlwaysSaves ==
    /\ mpc = "loop"
    /\ idx > Len(args.sources)
    /\ SaveBegin("main", 0, allProducts, args.sources)
    /\ mpc' = "final"
    /\ UNCHANGED <<progress, cache, args, allProducts, urls, queue, products,
                   lock, wk, outcome, flushed, lastAccepted, smFetched, startFile,
                   lastMerge, op, writes, okLog, flushes, exitCode, idx>>

\* main after the supplier loop: return 1, or save_products(all_products, sources)
\* up to the open
MainFinish ==
    /\ mpc = "loop"
    /\ idx > Len(args.sources)
    /\ IF allProducts = <<>>
       THEN /\ mpc' = "idle"
            /\ exitCode' = "1"
            /\ idx' = 0
            /\ UNCHANGED <<file, sv>>
       ELSE /\ SaveBegin("main", 0, allProducts, args.sources)
            /\ mpc' = "final"
            /\ UNCHANGED <<exitCode, idx>>
    /\ UNCHANGED <<progress, cache, args, allProducts, urls, queue, products,
                   lock, wk, outcome, flushed, lastAccepted, smFetched, startFile,
                   lastMerge, op, writes, okLog, flushes>>

\* save_products: json.dump(data, f) to its end, and the return to the caller
SaveEnd ==
    /\ sv.pc = "open"
    /\ file' = CatalogData(sv.existing, sv.products)
    /\ sv' = NoSave
    /\ lock' = 0
    /\ wk' = IF sv.owner = "worker" THEN [wk EXCEPT ![sv.w] = IdleWk] ELSE wk
    /\ flushed' = IF sv.owner = "worker" THEN Len(sv.products) ELSE flushed
    /\ mpc' = IF sv.owner = "main" THEN "idle" ELSE mpc
    /\ exitCode' = IF sv.owner = "main" THEN "0" ELSE exitCode
    /\ idx' = IF sv.owner = "main" THEN 0 ELSE idx
    /\ allProducts' = IF sv.owner = "main" THEN <<>> ELSE allProducts
    /\ lastMerge' = [prior |-> sv.prior, products |-> sv.products,
                     sources |-> sv.sources]
    /\ UNCHANGED <<progress, cache, args, urls, queue, products, outcome,
                   lastAccepted, smFetched, startFile, op, writes, okLog, flushes>>

\* the process is terminated from outside: its memory is lost, the database
\* and the file stay as they are
Kill ==
    /\ mpc # "idle"
    /\ mpc' = "idle"
    /\ exitCode' = "killed"
    /\ args' = NoArgs
    /\ idx' = 0
    /\ allProducts' = <<>>
    /\ urls' = <<>>
    /\ queue' = <<>>
    /\ products' = <<>>
    /\ lock' = 0
    /\ wk' = <<>>
    /\ sv' = NoSave
    /\ flushed' = 0
    /\ writes' = <<>>
    /\ okLog' = <<>>
    /\ flushes' = <<>>
    /\ UNCHANGED <<progress, cache, file, outcome, lastAccepted, smFetched,
                   startFile, lastMerge, op>>

\* save_products called on its own, up to the open
MergeCall(prods, sources) ==
    /\ mpc = "idle"
    /\ SaveBegin("driver", 0, prods, sources)
    /\ UNCHANGED <<progress, cache, mpc, args, idx, allProducts, exitCode, urls,
                   queue, products, lock, wk, outcome, flushed, lastAccepted,
                   smFetched, startFile, lastMerge, op, writes, okLog, flushes>>

----------------------------------------------------------------------------
(* The sites, pages and command lines of the model *)

LvA == "https://www.lojavale.com.br/a"
LvB == "https://www.lojavale.com.br/b"
LvC == "https://www.lojavale.com.br/c"
LvImg == "https://www.lojavale.com.br/a.jpg"
LvCdn == "https://lojavale.cdn.magazord.com.br/img/a"
PrA == "https://www.proesi.com.br/a"

ProductUrls == {LvA, LvB, LvC, PrA}

AllOk == [i \in 1..Retries |-> "ok"]
AllFail == [i \in 1..Retries |-> "fail"]
LastOk == [i \in 1..Retries |-> IF i = Retries THEN "ok" ELSE "fail"]

ProductPage(name, sku, price, inStock, description, category) ==
    [responses |-> AllOk, raises |-> None, name |-> Some(name), sku |-> sku,
     price |-> Some(price), inStock |-> inStock, description |-> description,
     category |-> category]

\* 10^19, an int beyond those of SQLite
TenTo19 == PyIntOf(FALSE, "10000000000000000000")

\* 2^53 + 1, an int halfway between two doubles
Odd53 == PyIntOf(FALSE, "9007199254740993")

\* 10^400, an int beyond the doubles
TenTo400 == PyIntOf(FALSE, "1" \o Zeros(400))

NoDataPage ==
    [responses |-> AllOk, raises |-> None, name |-> None, sku |-> "",
     price |-> None, inStock |-> TRUE, description |-> None, category |-> None]

FailedPage == [NoDataPage EXCEPT !.responses = AllFail]

RaisingPage == [NoDataPage EXCEPT !.raises = Some("boom")]

Sitemap(responses, locs) == [responses |-> responses, locs |-> locs]

NoSitemaps == [k \in SupplierKeys |-> {Sitemap(AllFail, <<>>)}]

Args(sources, min_price, workers, incremental, resume, test) ==
    [sources |-> sources, min_price |-> min_price, workers |-> workers,
     incremental |-> incremental, resume |-> resume, test |-> test]

(* SpecCrawl: crawls of one supplier by two pool threads, over pages that  *)
(* fail, raise, lack data, fall below the minimum price or change          *)

CrawlSitemaps ==
    [NoSitemaps EXCEPT
        !["lojavale"] = {Sitemap(LastOk, <<LvA, LvB, LvC, LvImg, LvCdn, PrA>>),
                         Sitemap(AllOk, <<LvA, LvA>>)}]

CrawlPages ==
    [u \in ProductUrls |->
        CASE u = LvA -> {ProductPage("a", "1", PyFloat(1), TRUE, Some("b|1.0|True|c"), Some("x")),
                         ProductPage("a|1.0|True|b", "1", PyFloat(1), TRUE, Some("c"), Some("x")),
                         RaisingPage}
          [] u = LvB -> {ProductPage("b", "2", PyFloat(-1), TRUE, None, Some("x")),
                         ProductPage("b", "2", PyFloat(2), TRUE, None, Some("x")),
                         FailedPage}
          [] u = LvC -> {ProductPage("c", "3", PyInt(2), FALSE, None, Some("y")),
                         ProductPage("c", "3", TenTo19, FALSE, None, Some("y")),
                         [NoDataPage EXCEPT !.responses = LastOk]}
          [] OTHER   -> {NoDataPage}]

CrawlArgs ==
    {Args(<<"lojavale">>, PyFloat(m), 2, i, FALSE, FALSE) : m \in {-1, 2}, i \in BOOLEAN}

CrawlNext ==
    \/ \E a \in CrawlArgs : MainStart(a)
    \/ ScrapeFresh(CrawlSitemaps)
    \/ ScrapeRegister
    \/ \E w \in DOMAIN wk : WTake(w)
    \/ \E w \in DOMAIN wk : WProcess(w, CrawlPages)
    \/ \E w \in DOMAIN wk : WMarkUnchanged(w)
    \/ \E w \in DOMAIN wk : WUpsert(w)
    \/ \E w \in DOMAIN wk : WMarkOk(w)
    \/ \E w \in DOMAIN wk : WAppend(w)
    \/ \E w \in DOMAIN wk : WFlush(w)
    \/ PoolDone
    \/ MainFinish
    \/ SaveEnd

SpecCrawl == Init /\ [][CrawlNext]_vars

----------------------------------------------------------------------------
(* Properties of the crawl engine, checked under SpecCrawl *)

PoolFinished ==
    mpc = "pool" /\ queue = <<>> /\ \A w \in DOMAIN wk : wk[w].pc = "idle"

OutcomeKinds(k) == {o \in outcome : o.kind = k}

\* C3: a URL whose fetch fails on all 3 attempts ends with status 'error', and
\* in the run of 3 URLs that meet one failed fetch, one price below the minimum
\* and one valid product, scrape_all returns 1 record and the ledger holds
\* 1 error entry and 2 done entries.
C3_FetchFailureIsError ==
    /\ \A o \in OutcomeKinds("fetch_failed") :
          \A r \in progress : r.url = o.url => r.status = "error"
    /\ ( /\ PoolFinished
         /\ Len(urls) = 3
         /\ Cardinality(OutcomeKinds("fetch_failed")) = 1
         /\ Cardinality(OutcomeKinds("below")) = 1
         /\ Cardinality(OutcomeKinds("ok")) = 1 )
       => /\ Len(products) = 1
          /\ get_progress(progress, CurName) =
                [total |-> 3, done |-> 2, errors |-> 1, pending |-> 0]

\* C5: the number of accepted records that are not in the last flushed
\* snapshot never exceeds save_interval.
C5_UnflushedBounded ==
    mpc = "pool" => Len(products) - flushed <= SaveInterval

\* C6: an entry that is done or error keeps its status in every step, unless
\* the step deletes it.
C6_StatusFinal ==
    [][\A r \in progress : \A r2 \in progress' :
          (r.status # "pending" /\ r2.url = r.url) => r2.status = r.status]_vars

\* C8: every record accepted by the engine has price > 0 and price >= minPrice.
C8_AcceptedPrice ==
    \A p \in Range(products) \cup Range(allProducts) \cup Range(sv.products) :
        NumGT(p.price, PyInt(0)) /\ NumGE(p.price, args.min_price)

SameRevision(la, p) ==
    /\ la.name = p.name
    /\ NumEq(la.price, p.price)
    /\ la.inStock = p.inStock
    /\ la.description = p.description

\* C10: in incremental mode, the change check of a page whose (supplier, sku)
\* was accepted before ends 'unchanged' exactly when name, price, stock flag
\* and description all equal those of the last accepted revision.
C10_UnchangedIffSameFields ==
    [][\A w \in DOMAIN wk \cap DOMAIN wk' :
          ( /\ args.incremental
            /\ wk[w].pc = "fetch"
            /\ wk'[w].pc \in {"upsert", "mark_unchanged"} )
          => \A la \in lastAccepted :
                LET p == wk'[w].product[1]
                IN  (la.supplier = p.supplier /\ la.sku = p.sku)
                    => (SameRevision(la, p) <=> wk'[w].pc = "mark_unchanged")]_vars

----------------------------------------------------------------------------
(* SpecRuns: processes that run to their end, one after the other, with    *)
(* every combination of --incremental, --resume and --test; one pool       *)
(* thread; the page of LvA changes its price between requests              *)

RunsSitemaps ==
    [NoSitemaps EXCEPT !["lojavale"] = {Sitemap(AllOk, <<LvA, LvB, LvC>>)}]

RunsPages ==
    [u \in ProductUrls |->
        CASE u = LvA -> {ProductPage("a", "1", PyFloat(1), TRUE, None, Some("x")),
                         ProductPage("a", "1", PyFloat(2), TRUE, None, Some("x"))}
          [] u = LvB -> {ProductPage("b", "2", PyFloat(1), TRUE, None, Some("x"))}
          [] u = LvC -> {ProductPage("c", "3", PyFloat(1), TRUE, None, Some("y"))}
          [] OTHER   -> {NoDataPage}]

RunsArgs ==
    {Args(<<"lojavale">>, PyFloat(1), 1, i, r, t) : i \in BOOLEAN, r \in BOOLEAN, t \in BOOLEAN}

RunsNext ==
    \/ \E a \in RunsArgs : MainStart(a)
    \/ ScrapeResume(RunsSitemaps)
    \/ ScrapeFresh(RunsSitemaps)
    \/ ScrapeRegister
    \/ \E w \in DOMAIN wk : WTake(w)
    \/ \E w \in DOMAIN wk : WProcess(w, RunsPages)
    \/ \E w \in DOMAIN wk : WMarkUnchanged(w)
    \/ \E w \in DOMAIN wk : WUpsert(w)
    \/ \E w \in DOMAIN wk : WMarkOk(w)
    \/ \E w \in DOMAIN wk : WAppend(w)
    \/ \E w \in DOMAIN wk : WFlush(w)
    \/ PoolDone
    \/ MainFinish
    \/ SaveEnd

SpecRuns == Init /\ [][RunsNext]_vars

Succeeded == mpc = "idle" /\ exitCode = "0"

\* C2: after an incremental run has completed, every URL that it marked
\* 'unchanged' still has its record in the catalog.
C2_UnchangedStillInCatalog ==
    (Succeeded /\ args.incremental)
    => \A o \in OutcomeKinds("unchanged") :
          \E i \in DOMAIN file.products : file.products[i].sourceUrl = o.url

PendingOf(name) ==
    {r.url : r \in {x \in progress : x.supplier = name /\ x.status = "pending"}}

EntriesOf(name) == {r.url : r \in {x \in progress : x.supplier = name}}

\* the URL sourcing step of scrape_all in resume mode
ResumeSourcing ==
    /\ mpc = "loop"
    /\ idx \in DOMAIN args.sources
    /\ args.resume
    /\ mpc' = "pool" \/ idx' = idx + 1

\* the parts of C7 that do not depend on --test
ResumeRest ==
    /\ PendingOf(CurName) # {}
       => /\ mpc' = "pool"
          /\ queue' = urls'
          /\ Range(urls') \subseteq PendingOf(CurName)
          /\ Cardinality(Range(urls')) = Len(urls')
          /\ progress' = progress
          /\ ~smFetched'
    /\ (PendingOf(CurName) = {} /\ EntriesOf(CurName) # {})
       => /\ mpc' = "loop"
          /\ idx' = idx + 1
          /\ allProducts' = allProducts
          /\ progress' = progress
          /\ ~smFetched'
    /\ EntriesOf(CurName) = {}
       => /\ mpc' = "pool"
          /\ smFetched'
          /\ progress \subseteq progress'
          /\ \A u \in Range(urls') :
                [url |-> u, supplier |-> CurName, status |-> "pending",
                 result |-> NULL] \in progress'

\* C7 as stated: in resume mode the URLs dispatched are exactly the pending
\* entries of the supplier; with entries and none pending, nothing is fetched
\* or changed and the result is empty; with no entries, the sitemap's URLs are
\* registered without a reset.
C7_ResumeDispatchesPending ==
    [][ResumeSourcing
        => /\ ResumeRest
           /\ PendingOf(CurName) # {} => Range(urls') = PendingOf(CurName)]_vars

\* C7 amended: as C7, but the URLs dispatched are all the pending entries
\* only without --test; with --test they are TestLimit of them (all of them
\* when fewer are pending).
C7_ResumeDispatchesPendingUpToLimit ==
    [][ResumeSourcing
        => /\ ResumeRest
           /\ (PendingOf(CurName) # {} /\ ~args.test)
              => Range(urls') = PendingOf(CurName)
           /\ (PendingOf(CurName) # {} /\ args.test)
              => Len(urls') = Min(TestLimit, Cardinality(PendingOf(CurName)))]_vars

\* a resume run has just dispatched the pending entries, and only those
C7_Witness ==
    /\ mpc = "pool"
    /\ args.resume
    /\ ~args.test
    /\ ~smFetched
    /\ queue = urls
    /\ Range(urls) = PendingOf(CurName)
    /\ \E r \in progress : r.supplier = CurName /\ r.status = "done"

----------------------------------------------------------------------------
(* SpecKill: crawls of one supplier that may be terminated at any point,   *)
(* each followed by a fresh crawl or, when it was terminated, by a resume  *)
(* run; one pool thread; pages that do not change                          *)

KillPages ==
    [u \in ProductUrls |->
        CASE u = LvA -> {ProductPage("a", "1", PyFloat(1), TRUE, None, Some("x"))}
          [] u = LvB -> {ProductPage("b", "2", PyFloat(1), TRUE, None, Some("x"))}
          [] u = LvC -> {ProductPage("c", "3", PyFloat(1), TRUE, None, Some("y"))}
          [] OTHER   -> {NoDataPage}]

KillArgs == {Args(<<"lojavale">>, PyFloat(1), 1, FALSE, r, FALSE) : r \in BOOLEAN}

KillNext ==
    \/ \E a \in KillArgs : (a.resume => exitCode = "killed") /\ MainStart(a)
    \/ ScrapeResume(RunsSitemaps)
    \/ ScrapeFresh(RunsSitemaps)
    \/ ScrapeRegister
    \/ \E w \in DOMAIN wk : WTake(w)
    \/ \E w \in DOMAIN wk : WProcess(w, KillPages)
    \/ \E w \in DOMAIN wk : WMarkOk(w)
    \/ \E w \in DOMAIN wk : WAppend(w)
    \/ \E w \in DOMAIN wk : WFlush(w)
    \/ PoolDone
    \/ MainFinish
    \/ SaveEnd
    \/ Kill

SpecKill == Init /\ [][KillNext]_vars

\* C1: when a resume run has completed, the catalog still holds every record
\* of its supplier that the catalog held when the run started (the records
\* flushed before the interruption).
C1_ResumeKeepsFlushed ==
    (Succeeded /\ args.resume)
    => \A i \in DOMAIN startFile.products :
          startFile.products[i].supplier \in SourceNames(args.sources)
          => \E j \in DOMAIN file.products :
                file.products[j].id = startFile.products[i].id

\* C4: whenever no process is running, the last one having completed or
\* having been terminated at any point, the catalog file holds a complete
\* catalog and not a part of one.
C4_CatalogNeverPartial == mpc = "idle" => file.state # "partial"

----------------------------------------------------------------------------
(* SpecMerge: save_products called again and again with any records and    *)
(* any suppliers to update                                                 *)

MaxCatalog == 3        \* the calls of the model leave at most so many records

MergeRecords ==
    {parse_product("lojavale", LvA, ProductPage("a", "1", PyFloat(1), TRUE, None, Some("x")))[1],
     parse_product("lojavale", LvB, ProductPage("b", "2", PyFloat(1), TRUE, Some("c"), None))[1],
     parse_product("proesi", PrA, ProductPage("a", "LV-1", PyFloat(2), FALSE, None, Some("y")))[1]}

MergeInputs ==
    {<<>>} \cup {<<r>> : r \in MergeRecords}
           \cup {<<r, q>> : r \in MergeRecords, q \in MergeRecords}

MergeSources == {<<"lojavale">>, <<"proesi">>, <<"lojavale", "seel", "proesi">>}

MergeNext ==
    \/ \E prods \in MergeInputs, sources \in MergeSources :
          /\ Len(ExistingProducts(file, sources)) + Len(prods) <= MaxCatalog
          /\ MergeCall(prods, sources)
    \/ SaveEnd

SpecMerge == Init /\ [][MergeNext]_vars

Count(s, d) == Cardinality({i \in DOMAIN s : s[i] = d})

NewDicts(prods) == [i \in DOMAIN prods |-> to_dict(prods[i])]

\* C9: a completed save leaves every record of the old catalog whose supplier
\* is not updated in the new catalog, as it was and as often as it was (next
\* to the new records of that supplier, if any), and the records of the
\* updated suppliers in the new catalog are exactly the new records.
C9_MergeFrame ==
    [][(sv.pc = "open" /\ sv'.pc = "none" /\ file'.state = "valid")
        => LET old == sv.prior.products
               new == NewDicts(sv.products)
               out == file'.products
           IN  \A d \in Range(old) \cup Range(new) \cup Range(out) :
                  IF d.supplier \in SourceNames(sv.sources)
                  THEN Count(out, d) = Count(new, d)
                  ELSE Count(out, d) = Count(old, d) + Count(new, d)]_vars

\* a save has completed that kept records of one supplier and replaced those
\* of another
C9_Witness ==
    /\ sv.pc = "none"
    /\ file.state = "valid"
    /\ lastMerge.products # <<>>
    /\ \E d \in Range(lastMerge.prior.products) :
          /\ d.supplier \notin SourceNames(lastMerge.sources)
          /\ d \in Range(file.products)
    /\ \E d \in Range(lastMerge.prior.products) :
          /\ d.supplier \in SourceNames(lastMerge.sources)
          /\ d \notin Range(file.products)

----------------------------------------------------------------------------
(* SpecStore: the operations of ProductsDB called one after the other, in  *)
(* any order, on the store they leave; register_urls gets the lists that   *)
(* get_product_urls gives for the supplier                                 *)

StoreSuppliers == {SUPPLIERS["lojavale"].name, SUPPLIERS["proesi"].name}

\* the lists that get_product_urls returns: the <loc> texts of the supplier's
\* sitemap that start with the supplier's base_url, in the sitemap's order
StoreUrlLists(supplier) ==
    {us \in {<<LvA>>, <<LvA, LvB>>, <<LvB, LvB>>, <<PrA>>} :
        \A i \in DOMAIN us :
            \E k \in DOMAIN SUPPLIERS :
                /\ SUPPLIERS[k].name = supplier
                /\ StartsWith(us[i], SUPPLIERS[k].base_url)}

StoreResults == {"ok", "no_data"}

StoreProducts ==
    MergeRecords \cup
    {parse_product("lojavale", LvA, ProductPage("a", "1", p, TRUE, None, Some("x")))[1]
        : p \in {PyFloat(2), Odd53, TenTo19}}

StoreFrame ==
    UNCHANGED <<file, mpc, args, idx, allProducts, exitCode, urls, queue,
                products, lock, wk, sv, outcome, flushed, lastAccepted,
                smFetched, startFile, lastMerge, writes, okLog, flushes>>

StoreRegister(us, supplier) ==
    /\ mpc = "idle"
    /\ progress' = register_urls(progress, us, supplier)
    /\ op' = [name |-> "register_urls", urls |-> us, supplier |-> supplier,
              after |-> IF op.name = "reset_urls" THEN op ELSE NoOp]
    /\ UNCHANGED cache
    /\ StoreFrame

StoreReset(supplier) ==
    /\ mpc = "idle"
    /\ progress' = reset_urls(progress, supplier)
    /\ op' = [name |-> "reset_urls", supplier |-> supplier,
              removed |-> progress \ reset_urls(progress, supplier)]
    /\ UNCHANGED cache
    /\ StoreFrame

StoreMarkDone(url, result) ==
    /\ mpc = "idle"
    /\ progress' = mark_url_done(progress, url, result)
    /\ op' = [name |-> "mark_url_done", url |-> url, result |-> result]
    /\ UNCHANGED cache
    /\ StoreFrame

StoreMarkError(url, error) ==
    /\ mpc = "idle"
    /\ progress' = mark_url_error(progress, url, error)
    /\ op' = [name |-> "mark_url_error", url |-> url, error |-> error]
    /\ UNCHANGED cache
    /\ StoreFrame

\* update_product_cache(p): the call returns, or raises and writes nothing
StoreUpsert(p) ==
    /\ mpc = "idle"
    /\ cache' = update_product_cache(cache, p)
    /\ op' = [name |-> "update_product_cache", supplier |-> p.supplier, sku |-> p.sku]
    /\ UNCHANGED progress
    /\ StoreFrame

StoreNext ==
    \/ \E s \in StoreSuppliers : \E us \in StoreUrlLists(s) : StoreRegister(us, s)
    \/ \E s \in StoreSuppliers : StoreReset(s)
    \/ \E u \in {LvA, LvB}, r \in StoreResults : StoreMarkDone(u, r)
    \/ \E u \in {LvA, LvB} : StoreMarkError(u, "boom")
    \/ \E p \in StoreProducts : StoreUpsert(p)

SpecStore == Init /\ [][StoreNext]_vars

Entry(url, supplier) ==
    [url |-> url, supplier |-> supplier, status |-> "pending", result |-> NULL]

HasEntry(t, url) == \E r \in t : r.url = url

\* C11: register_urls adds a pending entry of the supplier for each URL that
\* has no entry, adds nothing else and leaves every existing entry as it was;
\* when every URL has an entry, whatever its status, the store stays as it is.
C11_RegisterIdempotent ==
    [][op'.name = "register_urls"
        => /\ progress \subseteq progress'
           /\ \A u \in Range(op'.urls) :
                 IF HasEntry(progress, u)
                 THEN \A r \in progress' : r.url = u => r \in progress
                 ELSE Entry(u, op'.supplier) \in progress'
           /\ \A r \in progress' \ progress : r.url \in Range(op'.urls)
           /\ (\A u \in Range(op'.urls) : HasEntry(progress, u))
              => progress' = progress]_vars

\* register_urls was called with a URL that was done and a URL that is pending
C11_Witness ==
    /\ op.name = "register_urls"
    /\ \E r \in progress : r.url = op.urls[1] /\ r.status = "done"
    /\ \E r \in progress : r.url \in Range(op.urls) /\ r.status = "pending"

\* C12: after reset_urls(supplier) followed by register_urls(urls, supplier),
\* for a list of URLs of that supplier's site, every URL of urls has a pending
\* entry of that supplier, whatever status it had before the reset.
C12_ResetThenRegisterAllPending ==
    [][(op.name = "reset_urls" /\ op'.name = "register_urls"
            /\ op'.supplier = op.supplier)
        => \A u \in Range(op'.urls) : Entry(u, op'.supplier) \in progress']_vars

\* the reset removed a done entry and an error entry of the supplier, and the
\* registration that followed it has left both URLs pending
C12_Witness ==
    /\ op.name = "register_urls"
    /\ op.after.name = "reset_urls"
    /\ op.after.supplier = op.supplier
    /\ \E r \in op.after.removed : r.url \in Range(op.urls) /\ r.status = "done"
    /\ \E r \in op.after.removed : r.url \in Range(op.urls) /\ r.status = "error"
    /\ \A u \in Range(op.urls) : Entry(u, op.supplier) \in progress

CacheKeys(c) == {<<r.supplier, r.sku>> : r \in c}

\* C19: the cache holds at most one entry per (supplier, sku), and no step
\* removes or alters an entry other than the entry of the (supplier, sku) that
\* an upsert writes.
C19_CacheEntriesStay ==
    [][/\ Cardinality(CacheKeys(cache')) = Cardinality(cache')
       /\ \A r \in cache :
             \/ r \in cache'
             \/ /\ op'.name = "update_product_cache"
                /\ op'.supplier = r.supplier
                /\ op'.sku = r.sku]_vars

----------------------------------------------------------------------------
(* SpecCrawlFair: SpecCrawl with pool threads that keep running: a step of  *)
(* the pool that stays possible is taken                                   *)

CrawlPoolStep ==
    \/ \E w \in DOMAIN wk : WTake(w)
    \/ \E w \in DOMAIN wk : WProcess(w, CrawlPages)
    \/ \E w \in DOMAIN wk : WMarkUnchanged(w)
    \/ \E w \in DOMAIN wk : WUpsert(w)
    \/ \E w \in DOMAIN wk : WMarkOk(w)
    \/ \E w \in DOMAIN wk : WAppend(w)
    \/ \E w \in DOMAIN wk : WFlush(w)
    \/ SaveEnd

SpecCrawlFair == SpecCrawl /\ WF_vars(CrawlPoolStep)

AllDispatchedMarked ==
    \A u \in Range(urls) :
        \E r \in progress : r.url = u /\ r.status \in {"done", "error"}

\* C13: once the URLs are dispatched, the pool comes to its end whatever the
\* pages do (failed fetches, missing data, exceptions), and at its end every
\* dispatched URL is done or error.
C13_PoolTerminatesAllMarked ==
    /\ (mpc = "pool") ~> PoolFinished
    /\ [](PoolFinished => AllDispatchedMarked)

\* the pool has ended after a URL raised in parse_product, a URL failed to
\* download and update_product_cache raised on the record of a URL
C13_Witness ==
    /\ PoolFinished
    /\ \E r \in progress : r.status = "error" /\ r.result = "boom"
    /\ \E r \in progress : r.status = "error" /\ r.result = BindErrorText
    /\ OutcomeKinds("fetch_failed") # {}
    /\ AllDispatchedMarked

----------------------------------------------------------------------------
(* Properties of the pool threads, checked under SpecCrawl *)

\* C14: a pool thread has written the status of the URL it took exactly once
\* when it is done with the URL (and from the write on, while it appends and
\* flushes the record), and not yet while it downloads, checks and caches the
\* record; it
\* takes its next URL only when it is done with the last.
C14_OneStatusWritePerUrl ==
    \A w \in DOMAIN wk :
        CASE wk[w].pc \in {"fetch", "upsert", "mark_ok", "mark_unchanged"} -> writes[w] = 0
          [] wk[w].pc \in {"append", "flush", "saving"} -> writes[w] = 1
          [] OTHER -> writes[w] \in {-1, 1}

\* the pool of an incremental run has ended after URLs that were unchanged,
\* gave a record, and raised in update_product_cache after the change check
C14_Witness ==
    /\ PoolFinished
    /\ \A w \in DOMAIN wk : writes[w] = 1
    /\ OutcomeKinds("exception") # {}
    /\ \E r \in progress : r.status = "error" /\ r.result = BindErrorText
    /\ OutcomeKinds("unchanged") # {}
    /\ OutcomeKinds("ok") # {}

\* C20: while the pool runs, the collection only grows, by the record of the
\* thread that appends; when scrape_all returns, the collection holds each
\* record as often as a URL was marked 'ok' with it, and main takes it as it is.
C20_ReturnsAcceptedRecords ==
    [][/\ (mpc = "pool" /\ mpc' = "pool" /\ products' # products)
          => \E w \in DOMAIN wk :
                /\ wk[w].pc = "append"
                /\ products' = Append(products, wk[w].product[1])
       /\ (mpc = "pool" /\ mpc' = "loop")
          => /\ \A p \in Range(products) \cup Range(okLog) :
                   Count(products, p) = Count(okLog, p)
             /\ allProducts' = allProducts \o products]_vars

\* two pool threads have marked their URLs 'ok' in one order and appended the
\* records in the other, and the pool has ended
C20_Witness ==
    /\ PoolFinished
    /\ Len(okLog) >= 2
    /\ Len(products) = Len(okLog)
    /\ products # okLog

----------------------------------------------------------------------------
(* SpecLedger: fresh and resume runs of one supplier, with and without     *)
(* --test, one after the other; one pool thread; pages without a name,     *)
(* without a price, below the minimum price, and that raise with a short   *)
(* and with a long text                                                    *)

LongText == Repeat("0123456789", 51)

LedgerPages ==
    [u \in ProductUrls |->
        CASE u = LvA -> {NoDataPage,
                         ProductPage("a", "1", TenTo400, TRUE, None, Some("x")),
                         ProductPage("a", "1", Odd53, TRUE, None, Some("x")),
                         ProductPage("a", "1", PyFloat(2), TRUE, None, Some("x"))}
          [] u = LvB -> {[NoDataPage EXCEPT !.raises = Some(LongText)],
                         RaisingPage,
                         ProductPage("b", "2", PyFloat(1), TRUE, None, Some("x"))}
          [] u = LvC -> {ProductPage("c", "3", PyFloat(0), TRUE, None, Some("y")),
                         ProductPage("c", "3", TenTo19, TRUE, None, Some("y")),
                         ProductPage("c", "3", PyFloat(3), TRUE, None, Some("y"))}
          [] OTHER   -> {NoDataPage}]

LedgerArgs ==
    {Args(<<"lojavale">>, PyFloat(2), 1, FALSE, r, t) : r \in BOOLEAN, t \in BOOLEAN}

LedgerNext ==
    \/ \E a \in LedgerArgs : MainStart(a)
    \/ ScrapeResume(RunsSitemaps)
    \/ ScrapeFresh(RunsSitemaps)
    \/ ScrapeRegister
    \/ \E w \in DOMAIN wk : WTake(w)
    \/ \E w \in DOMAIN wk : WProcess(w, LedgerPages)
    \/ \E w \in DOMAIN wk : WMarkOk(w)
    \/ \E w \in DOMAIN wk : WAppend(w)
    \/ \E w \in DOMAIN wk : WFlush(w)
    \/ PoolDone
    \/ MainFinish
    \/ SaveEnd

SpecLedger == Init /\ [][LedgerNext]_vars

RaisedTexts == {"boom", LongText, BindErrorText}

\* C15: the entry of a URL after its processing: done 'ok' and the fingerprint
\* of the record in the cache when a record was accepted; done 'no_data' when
\* the page has no name or no price; done 'price_below_<min_price>' when the
\* price is below the minimum; error with the first 500 characters of the
\* exception text when the processing raised.  A resume run does not dispatch
\* a URL whose entry is 'no_data', nor change that entry.
C15_OutcomeDeterminesEntry ==
    [][/\ \A o \in outcome' \ outcome :
             \A r \in progress' :
                r.url = o.url =>
                   CASE o.kind = "ok" ->
                          /\ r.status = "done" /\ r.result = "ok"
                          /\ \E w \in DOMAIN wk :
                                /\ wk[w].url = o.url
                                /\ CacheRow(wk[w].product[1]) \in cache'
                     [] o.kind = "no_data" ->
                          r.status = "done" /\ r.result = "no_data"
                     [] o.kind = "below" ->
                          /\ r.status = "done"
                          /\ r.result = "price_below_" \o FloatStr(args.min_price)
                     [] o.kind = "exception" ->
                          /\ r.status = "error"
                          /\ Len(r.result) <= ErrMax
                          /\ \E text \in RaisedTexts :
                                r.result = SubSeq(text, 1, Min(Len(text), ErrMax))
                          /\ cache' = cache
                     [] OTHER -> TRUE
       /\ ResumeSourcing
          => \A r \in progress :
                r.result = "no_data" => r.url \notin Range(urls')
       /\ (args.resume /\ args' = args)
          => \A r \in progress : r.result = "no_data" => r \in progress']_vars

\* a resume run has met a URL that raised with the long text and a URL whose
\* record update_product_cache refused and left out of the cache, with an
\* entry 'no_data' in the store
C15_Witness ==
    /\ args.resume
    /\ OutcomeKinds("exception") # {}
    /\ \E r \in progress : r.status = "error" /\ Len(r.result) = ErrMax
    /\ \E r \in progress :
          /\ r.url = LvC /\ r.status = "error" /\ r.result = BindErrorText
    /\ \A c \in cache : c.sku # "3"
    /\ \E r \in progress : r.result = "no_data"

----------------------------------------------------------------------------
(* main: the invocations that do not scrape *)

\* the variables of a process that scrapes
ScrapeFrame ==
    UNCHANGED <<mpc, args, idx, allProducts, urls, queue, products, lock, wk, sv,
                outcome, flushed, lastAccepted, smFetched, startFile, lastMerge,
                writes, okLog, flushes>>

\* main --status: the progress of the three suppliers is printed; return 0
MainStatus ==
    /\ mpc = "idle"
    /\ sv.pc = "none"
    /\ op' = [name |-> "status"]
    /\ exitCode' = "0"
    /\ UNCHANGED <<progress, cache, file>>
    /\ ScrapeFrame

\* main --reset: the order of "for source in ['proesi', 'lojavale', 'seel']"
ResetOrder == <<"proesi", "lojavale", "seel">>

\* the turn of the reset loop that a step of main --reset runs
ResetTurn == IF mpc = "idle" THEN 1 ELSE idx

\* a turn of the reset loop that empties products_cache too
MainResetAndForget ==
    /\ \/ mpc = "idle" /\ sv.pc = "none"
       \/ mpc = "reset" /\ idx <= Len(ResetOrder)
    /\ progress' = reset_urls(progress, SUPPLIERS[ResetOrder[ResetTurn]].name)
    /\ cache' = {}
    /\ mpc' = "reset"
    /\ idx' = ResetTurn + 1
    /\ exitCode' = "running"
    /\ UNCHANGED <<file, args, allProducts, urls, queue, products, lock, wk, sv,
                   outcome, flushed, lastAccepted, smFetched, startFile, lastMerge,
                   op, writes, okLog, flushes>>

\* main --reset: one turn of the loop, db.reset_urls(SUPPLIERS[source]['name']),
\* a DELETE committed on its own
MainReset ==
    /\ \/ mpc = "idle" /\ sv.pc = "none"
       \/ mpc = "reset" /\ idx <= Len(ResetOrder)
    /\ progress' = reset_urls(progress, SUPPLIERS[ResetOrder[ResetTurn]].name)
    /\ mpc' = "reset"
    /\ idx' = ResetTurn + 1
    /\ exitCode' = "running"
    /\ UNCHANGED <<cache, file, args, allProducts, urls, queue, products, lock, wk,
                   sv, outcome, flushed, lastAccepted, smFetched, startFile,
                   lastMerge, op, writes, okLog, flushes>>

\* main --reset after the loop: return 0
MainResetDone ==
    /\ mpc = "reset"
    /\ idx > Len(ResetOrder)
    /\ mpc' = "idle"
    /\ idx' = 0
    /\ exitCode' = "0"
    /\ op' = [name |-> "reset"]
    /\ UNCHANGED <<progress, cache, file, args, allProducts, urls, queue, products,
                   lock, wk, sv, outcome, flushed, lastAccepted, smFetched,
                   startFile, lastMerge, writes, okLog, flushes>>

\* main --export: return 1 without PRODUCTS_FILE; json.load raises on a file
\* that was cut, nothing catches it and the interpreter ends with status 1;
\* otherwise the CSV is written and main returns 0
MainExport ==
    /\ mpc = "idle"
    /\ sv.pc = "none"
    /\ op' = [name |-> "export", file |-> file.state]
    /\ exitCode' = IF file.state = "valid" THEN "0" ELSE "1"
    /\ UNCHANGED <<progress, cache, file>>
    /\ ScrapeFrame

----------------------------------------------------------------------------
(* SpecAll: invocations of every kind, the scrapes over the three          *)
(* suppliers in main's order, each with a sitemap that cannot be           *)
(* downloaded, is empty or lists product pages                             *)

SeA == "https://www.seeldistribuidora.com.br/a"

AllUrls == {LvA, LvB, SeA, PrA}

AllSitemaps ==
    [lojavale |-> {Sitemap(AllFail, <<LvA, LvB>>), Sitemap(AllOk, <<LvA, LvB>>)},
     seel     |-> {Sitemap(AllFail, <<SeA>>), Sitemap(AllOk, <<SeA>>)},
     proesi   |-> {Sitemap(AllFail, <<PrA>>), Sitemap(AllOk, <<PrA>>)}]

AllPages ==
    [u \in AllUrls |->
        CASE u = LvA -> {ProductPage("a", "1", PyFloat(1), TRUE, None, Some("x"))}
          [] u = LvB -> {ProductPage("b", "1", PyFloat(1), TRUE, None, Some("x"))}
          [] u = SeA -> {NoDataPage}
          [] u = PrA -> {ProductPage("p", "LV-1", PyFloat(1), TRUE, None, Some("y"))}]

AllArgs == {Args(<<"lojavale", "seel", "proesi">>, PyFloat(1), 1, FALSE, r, FALSE) : r \in BOOLEAN}

AllNext ==
    \/ \E a \in AllArgs : MainStart(a)
    \/ MainStatus
    \/ MainReset
    \/ MainResetDone
    \/ MainExport
    \/ ScrapeResume(AllSitemaps)
    \/ ScrapeFresh(AllSitemaps)
    \/ ScrapeRegister
    \/ \E w \in DOMAIN wk : WTake(w)
    \/ \E w \in DOMAIN wk : WProcess(w, AllPages)
    \/ \E w \in DOMAIN wk : WMarkOk(w)
    \/ \E w \in DOMAIN wk : WAppend(w)
    \/ \E w \in DOMAIN wk : WFlush(w)
    \/ PoolDone
    \/ MainFinish
    \/ SaveEnd
    \/ Kill

SpecAll == Init /\ [][AllNext]_vars

----------------------------------------------------------------------------
(* Exit codes, sitemap failures and record ids, checked under SpecAll *)

\* the step in which a scraping process ends by itself
ScrapeEnds == mpc \notin {"idle", "reset"} /\ mpc' = "idle" /\ exitCode' # "killed"

\* the step in which an invocation that does not scrape ends by itself
CommandRuns ==
    \/ mpc = "idle" /\ mpc' = "idle"
    \/ mpc = "reset" /\ mpc' = "idle" /\ exitCode' # "killed"

\* what a scraping process that ends by itself exits with: 0 when a record was
\* accepted, else 1 with the catalog file as the process found it
ScrapeExit ==
    ScrapeEnds =>
        /\ (OutcomeKinds("ok") # {}) <=> (allProducts # <<>>)
        /\ exitCode' = IF allProducts # <<>> THEN "0" ELSE "1"
        /\ exitCode' = "1" => (file = startFile /\ file' = startFile)

\* C16 as stated: exit code 0 when at least one record was accepted across the
\* requested suppliers and on every status, reset or export invocation; exit
\* code 1 only when a scrape yields zero records, the catalog file then not
\* rewritten.
C16_ExitZeroOnEveryCommand ==
    [][/\ ScrapeExit
       /\ CommandRuns => (op'.name \in {"status", "reset", "export"}
                            => exitCode' = "0")]_vars

\* C16: exit code 0 when at least one record was accepted across the requested
\* suppliers, on every status and reset invocation, and on an export
\* invocation that finds a complete catalog file; exit code 1 when a scrape
\* yields zero records, the catalog file then not rewritten, and when an
\* export invocation finds no catalog file or a cut one.
C16_ExitCodeByInvocation ==
    [][/\ ScrapeExit
       /\ CommandRuns =>
            /\ op'.name \in {"status", "reset"} => exitCode' = "0"
            /\ op'.name = "export" =>
                  /\ exitCode' = IF file.state = "valid" THEN "0" ELSE "1"
                  /\ file' = file]_vars

\* an export without catalog file has exited with 1, after a scrape that found
\* URLs and accepted no record
C16_Witness ==
    /\ mpc = "idle"
    /\ op = [name |-> "export", file |-> "absent"]
    /\ exitCode = "1"
    /\ file = AbsentFile
    /\ \E r \in progress : r.status = "done"

\* the sourcing step of scrape_all in which the sitemap download fails
SitemapFails ==
    /\ mpc = "loop"
    /\ idx <= Len(args.sources)
    /\ [url |-> CurKey, kind |-> "sitemap_failed"] \in outcome' \ outcome

RowsOfOthers(t) == {r \in t : r.supplier # CurName}

RecordsOf(s, name) == SelectSeq(s, LAMBDA d : d.supplier = name)

\* C17: in a run over several suppliers, a sitemap download that fails gives
\* the empty URL list that an empty sitemap gives and scrape_all goes on
\* without raising: nothing is dispatched or accepted for the supplier, the
\* entries of the other suppliers, the cache and the catalog are not touched,
\* the loop moves to the next supplier in main's order, the process ends only
\* after the last one, and the final save writes the records of the other
\* suppliers.
C17_SitemapFailureSkipsSupplier ==
    [][/\ SitemapFails =>
            /\ Len(args.sources) > 1
            /\ urls' = get_product_urls(CurKey, Sitemap(AllOk, <<>>))
            /\ urls' = <<>>
            /\ mpc' \in {"register", "pool"}
            /\ exitCode' = "running" /\ idx' = idx /\ args' = args
            /\ RowsOfOthers(progress') = RowsOfOthers(progress)
            /\ progress' \ RowsOfOthers(progress') = {}
            /\ cache' = cache /\ file' = file /\ allProducts' = allProducts
       /\ (mpc = "pool" /\ mpc' = "loop"
             /\ [url |-> CurKey, kind |-> "sitemap_failed"] \in outcome) =>
            /\ products = <<>>
            /\ allProducts' = allProducts
            /\ progress' = progress /\ cache' = cache /\ file' = file
            /\ idx' = idx + 1
       /\ (mpc \notin {"idle", "reset"} /\ mpc' # "idle" /\ idx' # idx) =>
            /\ idx' = idx + 1
            /\ mpc = "pool" \/ args.resume
       /\ ScrapeEnds => idx > Len(args.sources)
       /\ (ScrapeEnds /\ exitCode' = "0") =>
            \A i \in DOMAIN args.sources :
               LET name == SUPPLIERS[args.sources[i]].name
               IN  RecordsOf(file'.products, name) =
                      SortByName(RecordsOf([j \in DOMAIN allProducts |->
                                               to_dict(allProducts[j])], name))]_vars

\* a run in which the sitemap of Loja Vale could not be downloaded has ended
\* with the record of Proesi in the catalog and its URL marked 'ok'
C17_Witness ==
    /\ mpc = "idle"
    /\ exitCode = "0"
    /\ [url |-> "lojavale", kind |-> "sitemap_failed"] \in outcome
    /\ [url |-> PrA, kind |-> "ok"] \in outcome
    /\ file.state = "valid"
    /\ \E i \in DOMAIN file.products : file.products[i].supplier = "Proesi"
    /\ \A i \in DOMAIN file.products : file.products[i].supplier # "Loja Vale"
    /\ \E r \in progress : r.url = PrA /\ r.result = "ok"

DistinctIds(s) == \A i, j \in DOMAIN s : i # j => s[i].id # s[j].id

\* C18: no two records of the catalog file and no two records of the list
\* that scrape_all returns have the same id.
C18_IdsUnique ==
    /\ file.state = "valid" => DistinctIds(file.products)
    /\ DistinctIds(products)

----------------------------------------------------------------------------
(* SpecCategories: save_products called where no catalog file is yet, for  *)
(* all suppliers, with the records of any pages, whose categories repeat,  *)
(* differ, are empty or are missing                                        *)

MaxSaved == 3          \* a call of the model saves at most so many records

CategoryRecords ==
    {parse_product("lojavale", LvA, ProductPage("a", "1", PyFloat(1), TRUE, None, Some("y")))[1],
     parse_product("lojavale", LvB, ProductPage("b", "2", PyFloat(1), TRUE, None, Some("x")))[1],
     parse_product("lojavale", LvC, ProductPage("c", "3", PyFloat(1), TRUE, None, Some("x")))[1],
     parse_product("proesi", PrA, ProductPage("p", "4", PyFloat(1), TRUE, None, None))[1],
     parse_product("seel", SeA, ProductPage("s", "5", PyFloat(1), TRUE, None, Some("")))[1]}

CategoryInputs ==
    UNION {{s \in [1..k -> CategoryRecords] : \A i, j \in 1..k : i # j => s[i] # s[j]} :
              k \in 0..MaxSaved}

CategoriesNext ==
    \/ \E prods \in CategoryInputs :
          /\ file = AbsentFile
          /\ MergeCall(prods, <<"lojavale", "seel", "proesi">>)
    \/ SaveEnd

SpecCategories == Init /\ [][CategoriesNext]_vars

\* the products of s whose category is c
WithCategory(s, c) == {i \in DOMAIN s : Get(s[i], "category", "") = c}

RECURSIVE SumOfCounts(_)
SumOfCounts(cs) == IF cs = <<>> THEN 0 ELSE Head(cs).count + SumOfCounts(Tail(cs))

NonIncreasingCounts(cs) ==
    \A i, j \in DOMAIN cs : i < j => cs[i].count >= cs[j].count

\* C21: the categories of a written catalog hold one entry for each distinct
\* non-empty category of its products and no other entry, each with the number
\* of products of that category as count, in the order of descending counts;
\* the counts sum to the number of products with a non-empty category, and
\* products of categories x, x and y give <<x: 2, y: 1>>.
C21_CategoriesCountProducts ==
    file.state = "valid" =>
        LET ps == file.products
            cs == file.categories
            used == {Get(ps[i], "category", "") : i \in DOMAIN ps} \ {""}
        IN  /\ {cs[i].id : i \in DOMAIN cs} = used
            /\ Len(cs) = Cardinality(used)
            /\ \A i \in DOMAIN cs : cs[i].count = Cardinality(WithCategory(ps, cs[i].id))
            /\ NonIncreasingCounts(cs)
            /\ SumOfCounts(cs) = Cardinality(DOMAIN ps \ WithCategory(ps, ""))
            /\ (Len(ps) = 3 /\ Cardinality(WithCategory(ps, "x")) = 2
                  /\ Cardinality(WithCategory(ps, "y")) = 1)
               => cs = <<[id |-> "x", count |-> 2], [id |-> "y", count |-> 1]>>

\* a catalog whose first product has category y and whose categories are
\* x with 2 and y with 1
C21_Witness ==
    /\ file.state = "valid"
    /\ Len(file.products) = 3
    /\ file.products[1].category = "y"
    /\ file.categories = <<[id |-> "x", count |-> 2], [id |-> "y", count |-> 1]>>

----------------------------------------------------------------------------
(* The shape of the catalog, checked under SpecMerge *)

SortedByName(ps) ==
    \A i, j \in DOMAIN ps :
        i < j => NameRank(NameKey(ps[i])) <= NameRank(NameKey(ps[j]))

\* C22: in the catalog that a save has written, products is in non-decreasing
\* order of name, totalProducts is the length of products, sources is the set
\* of the supplier names of the products, and categories is in non-increasing
\* order of count.
C22_CatalogShape ==
    file.state = "valid" =>
        /\ SortedByName(file.products)
        /\ file.totalProducts = Len(file.products)
        /\ file.sources = {file.products[i].supplier : i \in DOMAIN file.products}
        /\ NonIncreasingCounts(file.categories)

\* a save given a record named b before one named a has written a catalog of
\* three records, two suppliers and two categories
C22_Witness ==
    /\ sv.pc = "none"
    /\ file.state = "valid"
    /\ Len(lastMerge.products) = 2
    /\ lastMerge.products[1].name = "b"
    /\ lastMerge.products[2].name = "a"
    /\ Cardinality(file.sources) = 2
    /\ Len(file.categories) = 2
    /\ Len(file.products) = 3

----------------------------------------------------------------------------
(* SpecReset: incremental runs over Loja Vale or Proesi, one pool thread,  *)
(* the page of LvA changing its price between requests, with --reset       *)
(* invocations and calls of reset_urls between the runs                    *)

ResetSitemaps ==
    [NoSitemaps EXCEPT !["lojavale"] = {Sitemap(AllOk, <<LvA>>)},
                       !["proesi"]   = {Sitemap(AllOk, <<PrA>>)}]

ResetPages ==
    [u \in ProductUrls |->
        CASE u = LvA -> {ProductPage("a", "1", PyFloat(1), TRUE, None, Some("x")),
                         ProductPage("a", "1", PyFloat(2), TRUE, None, Some("x"))}
          [] u = PrA -> {ProductPage("p", "4", PyFloat(1), TRUE, None, Some("y"))}
          [] OTHER   -> {NoDataPage}]

ResetArgs ==
    {Args(<<k>>, PyFloat(1), 1, TRUE, r, FALSE) : k \in {"lojavale", "proesi"}, r \in BOOLEAN}

ResetNext ==
    \/ \E a \in ResetArgs : MainStart(a)
    \/ MainReset
    \/ MainResetDone
    \/ Kill
    \/ \E s \in StoreSuppliers : StoreReset(s)
    \/ ScrapeResume(ResetSitemaps)
    \/ ScrapeFresh(ResetSitemaps)
    \/ ScrapeRegister
    \/ \E w \in DOMAIN wk : WTake(w)
    \/ \E w \in DOMAIN wk : WProcess(w, ResetPages)
    \/ \E w \in DOMAIN wk : WMarkUnchanged(w)
    \/ \E w \in DOMAIN wk : WUpsert(w)
    \/ \E w \in DOMAIN wk : WMarkOk(w)
    \/ \E w \in DOMAIN wk : WAppend(w)
    \/ PoolDone
    \/ MainFinish
    \/ SaveEnd

SpecReset == Init /\ [][ResetNext]_vars

\* the rows of t without those of the suppliers in names
WithoutSuppliers(t, names) == {r \in t : r.supplier \notin names}

\* the fingerprint stored for the (supplier, sku) of p is that of p
FingerprintStored(c, p) ==
    \E r \in c : /\ r.supplier = p.supplier /\ r.sku = p.sku
                 /\ r.content_hash = content_hash(p)

\* C23: reset_urls(supplier), called on its own, by the fresh branch of
\* scrape_all or by a turn of the loop of --reset, leaves exactly the
\* entries of the other suppliers, as they were, and leaves the cache as it
\* was, and a --reset that returns leaves no entry of the three suppliers; and in an incremental run a page whose fingerprint is the stored one
\* is marked 'unchanged' and not appended, after a reset as before it.
C23_ResetDeletesSupplierEntries ==
    [][/\ (CommandRuns /\ op'.name = "reset_urls") =>
            /\ progress' = WithoutSuppliers(progress, {op'.supplier})
            /\ cache' = cache
       /\ (mpc' = "reset" /\ idx' = ResetTurn + 1) =>
            /\ progress' = WithoutSuppliers(progress,
                              {SUPPLIERS[ResetOrder[ResetTurn]].name})
            /\ cache' = cache
       /\ (mpc = "reset" /\ exitCode' = "0") =>
            /\ progress' = WithoutSuppliers(progress,
                              {SUPPLIERS[k].name : k \in SupplierKeys})
            /\ progress' = progress
            /\ cache' = cache
       /\ (mpc = "loop" /\ mpc' = "register") =>
            /\ progress' = WithoutSuppliers(progress, {CurName})
            /\ cache' = cache
       /\ \A w \in DOMAIN wk \cap DOMAIN wk' :
            ( /\ args.incremental
              /\ wk[w].pc = "fetch"
              /\ wk'[w].product # None
              /\ FingerprintStored(cache, wk'[w].product[1]) )
            => /\ wk'[w].pc = "mark_unchanged"
               /\ products' = products
       /\ \A w \in DOMAIN wk \cap DOMAIN wk' :
            wk[w].pc = "mark_unchanged" => products' = products]_vars

\* after a --reset that emptied a ledger and left the cache, an incremental
\* run has marked a URL 'unchanged'
C23_Witness ==
    /\ mpc = "pool"
    /\ args.incremental
    /\ op = [name |-> "reset"]
    /\ OutcomeKinds("unchanged") # {}
    /\ \E r \in progress : r.result = "unchanged"

----------------------------------------------------------------------------
(* parse_product: the extraction of the price.                             *)
(*                                                                         *)
(* The sources of a page: data is dataProduct (None, or derivacao.preco's  *)
(* precoPor and precoDe and produto.valor as JSON values), meta the        *)
(* content of the price meta tag (None without the tag) and ld the price   *)
(* of the JSON-LD offer as a JSON value (None when the block or the value  *)
(* is missing); offers tells whether the offers of the JSON-LD block are   *)
(* an object ("dict", also for a page without the block) or a list, whose  *)
(* first offer then has the price ld.  A JSON value is null, a number or a *)
(* text.                                                                   *)

JNull == [t |-> "null"]

JStr(text) == [t |-> "str", text |-> text]

\* bool(v)
JTruthy(v) ==
    CASE v.t = "null" -> FALSE
      [] v.t = "str"  -> v.text # ""
      [] OTHER        -> Truthy(v)

\* str(v)
JText(v) == IF v.t = "str" THEN v.text ELSE NumStr(v)

\* str.replace(',', '.')
RECURSIVE ReplaceComma(_)
ReplaceComma(s) ==
    IF Len(s) <= 1 THEN (IF s = "," THEN "." ELSE s)
    ELSE ReplaceComma(SubSeq(s, 1, Len(s) \div 2))
            \o ReplaceComma(SubSeq(s, Len(s) \div 2 + 1, Len(s)))

\* if v: try: price = float(str(v).replace(',', '.')); except ValueError: pass
FloatOrKeep(v, price) ==
    IF ~JTruthy(v) THEN price
    ELSE CHOOSE r \in {IF f = None THEN price ELSE f[1] :
                          f \in {to_float(ReplaceComma(JText(v)))}} : TRUE

\* sys.get_int_max_str_digits(): json.loads raises ValueError for an int of
\* more digits
IntMaxStrDigits == 4300

TooLong(v) == v.t = "int" /\ Len(v.digs) > IntMaxStrDigits

\* the json.loads of _extract_data_product raises a ValueError that is no
\* JSONDecodeError, into the handler of parse_product
DataRaises(src) ==
    /\ src.data # None
    /\ \/ TooLong(src.data[1].precoPor)
       \/ TooLong(src.data[1].precoDe)
       \/ TooLong(src.data[1].valor)

\* what stands for a price when the extraction of dataProduct has raised
Raised == [t |-> "raised"]

\* precoPor or precoDe, then produto.valor
PriceOfData(src) ==
    IF src.data = None THEN JNull
    ELSE IF DataRaises(src) THEN Raised
    ELSE LET first == IF JTruthy(src.data[1].precoPor) THEN src.data[1].precoPor
                      ELSE src.data[1].precoDe
         IN  IF JTruthy(first) THEN first ELSE FloatOrKeep(src.data[1].valor, first)

\* the end of the extraction: None without a price, and None when the price
\* is a text or an int beyond the doubles (its formatting raises into the
\* handler of parse_product)
PriceOrNone(price) ==
    IF ~JTruthy(price) \/ price.t \in {"str", "raised"} \/ FormatRaises(price) THEN None
    ELSE Some(price)

\* parse_product raises outside the lines of the price: in the json.loads of
\* _extract_json_ld, for an int of too many digits (581), and in
\* json_ld.get('offers', {}).get('availability', '') when the offers are a
\* list (723; in_stock is True on a page without the stock fields)
LdRaises(src) ==
    \/ src.ld # None /\ TooLong(src.ld[1])
    \/ src.offers = "list"

\* the sources in the order dataProduct, JSON-LD, meta tags
PriceLdBeforeMeta(src) ==
    LET p1 == PriceOfData(src)
        p2 == IF ~JTruthy(p1) /\ src.ld # None THEN FloatOrKeep(src.ld[1], p1) ELSE p1
        p3 == IF ~JTruthy(p2) /\ src.meta # None
              THEN FloatOrKeep(JStr(src.meta[1]), p2) ELSE p2
    IN  IF LdRaises(src) THEN None ELSE PriceOrNone(p3)

\* parse_product, lines "Preco", in the order dataProduct, meta tags,
\* JSON-LD: the price of the Product, or None when parse_product returns None
parse_price(src) ==
    LET p1 == PriceOfData(src)
        p2 == IF ~JTruthy(p1) /\ src.meta # None
              THEN FloatOrKeep(JStr(src.meta[1]), p1) ELSE p1
        p3 == IF ~JTruthy(p2) /\ src.ld # None THEN FloatOrKeep(src.ld[1], p2) ELSE p2
    IN  IF LdRaises(src) THEN None ELSE PriceOrNone(p3)

\* parse_product called on its own, up to the price
ParsePrice(src) ==
    /\ mpc = "idle"
    /\ op' = [name |-> "parse_price", page |-> src, price |-> parse_price(src)]
    /\ UNCHANGED <<progress, cache>>
    /\ StoreFrame

PriceTexts == {"", "x", "0", "1", "2,0", "-1", " 1e1\n", "1_0", ".5", "nan"}

\* an int of one digit more than json.loads takes
LongInt == PyIntOf(FALSE, "1" \o Zeros(IntMaxStrDigits))

\* pages whose price is written with whitespace, with digits of another
\* script, with more digits than a double holds, or is an int beyond the
\* doubles or beyond json.loads, and pages whose offers are a list
PriceEdgeSources ==
    {[data |-> Some([precoPor |-> p, precoDe |-> q, valor |-> JNull]),
      meta |-> Some("2"), ld |-> None, offers |-> "dict"]
        : p \in {TenTo400, Odd53, TenTo19, PyInt(3)}, q \in {JNull, LongInt}}
    \cup {[data |-> Some([precoPor |-> JNull, precoDe |-> JNull, valor |-> v]),
           meta |-> None, ld |-> Some(JStr("1")), offers |-> "dict"]
            : v \in {JStr(VT \o "7"), JStr("0.99999999999999999"),
                     JStr("1.7976931348623158e308"), JStr("1e-324"), TenTo400,
                     JStr("1" \o SubSeq(ScriptDigits[1], 1, 1)),
                     JStr("1e0000000000" \o SubSeq(ScriptDigits[2], 3, 3))}}
    \cup {[data |-> None, meta |-> Some(t), ld |-> Some(v), offers |-> "dict"]
            : t \in {VT \o "1", "1" \o NBSP, NEL \o "1", FS \o "1", OGHAM \o "7",
                     SubSeq(ScriptDigits[1], 1, 1) \o "1", "150.00000000000000001"},
              v \in {PyInt(7), LongInt}}
    \cup {[data |-> d, meta |-> m, ld |-> l, offers |-> "list"]
            : d \in {None, Some([precoPor |-> PyInt(3), precoDe |-> JNull, valor |-> JNull])},
              m \in {None, Some("2")},
              l \in {None, Some(JStr("2.0"))}}

PriceSources ==
    PriceEdgeSources \cup
    [data : {None} \cup
            {Some(d) : d \in [precoPor : {JNull, PyInt(0), PyInt(3), JStr("3")},
                              precoDe  : {JNull, PyFloat(0), MkFloat(FALSE, "45", -1)},
                              valor    : {JNull, PyInt(0), PyInt(150), JStr("x"),
                                          JStr("1."), JStr("5,0")}]},
     meta : {None} \cup {Some(t) : t \in PriceTexts},
     ld   : {None, Some(JStr("")), Some(JStr("1")), Some(JStr("2.0")), Some(PyFloat(2)),
             Some(PyInt(7))},
     offers : {"dict"}]

----------------------------------------------------------------------------
(* parse_product: the extraction of the images.                            *)
(*                                                                         *)
(* The sources of a page: data is dataProduct (None, or derivacao.imagens, *)
(* produto.midias and the produto's own midia_path and midia_arquivo_nome),*)
(* thumbs, mainFull and mainMax the attribute values of the gallery        *)
(* elements, ld the image of the JSON-LD block (None without it; a text or *)
(* a list), og the content of the og:image meta tag (None without the tag) *)
(* and generic the attributes of the generic image elements.  A missing    *)
(* attribute or key is "".                                                 *)

\* a or b or c
FirstText(a, b, c) == IF a # "" THEN a ELSE IF b # "" THEN b ELSE c

\* for x in xs: if x and keep(x) and x not in images: images.append(x);
\* keep is given as the set of the texts that pass
RECURSIVE AppendNew(_, _, _)
AppendNew(images, xs, keep) ==
    IF xs = <<>> THEN images
    ELSE AppendNew(IF Head(xs) # "" /\ Head(xs) \in keep /\ Head(xs) \notin Range(images)
                   THEN Append(images, Head(xs)) ELSE images,
                   Tail(xs), keep)

Http(xs) == {xs[i] : i \in {j \in DOMAIN xs : StartsWith(xs[j], "http")}}

\* BaseScraper._get_cdn_base
get_cdn_base(key) ==
    CASE key = "proesi"   -> "https://proesi.cdn.magazord.com.br/"
      [] key = "lojavale" -> "https://lojavale.cdn.magazord.com.br/"
      [] key = "seel"     -> "https://seeldistribuidora.cdn.magazord.com.br/"

\* f"{cdn_base}{mpath}{mnome}" when mpath and mnome, else nothing
MidiaUrl(key, m) ==
    IF m.midia_path # "" /\ m.midia_arquivo_nome # ""
    THEN get_cdn_base(key) \o m.midia_path \o m.midia_arquivo_nome ELSE ""

\* 1. derivacao.imagens
ImagesOfDerivacao(src) ==
    IF src.data = None THEN <<>>
    ELSE LET xs == [i \in DOMAIN src.data[1].imagens |->
                       FirstText(src.data[1].imagens[i].maior,
                                 src.data[1].imagens[i].media,
                                 src.data[1].imagens[i].menor)]
         IN  AppendNew(<<>>, xs, Range(xs))

\* 2. produto.midias: those of tipo_midia 1, else all of them, else the
\* produto's own midia
ImagesOfMidias(key, src) ==
    IF src.data = None THEN <<>>
    ELSE LET ms     == src.data[1].midias
             all    == [i \in DOMAIN ms |-> MidiaUrl(key, ms[i])]
             typed  == [i \in DOMAIN ms |->
                          IF ms[i].tipo_midia = 1 THEN all[i] ELSE ""]
             first  == AppendNew(<<>>, typed, Range(typed))
             second == IF first = <<>> THEN AppendNew(<<>>, all, Range(all)) ELSE first
             own    == MidiaUrl(key, src.data[1].midia)
         IN  IF second # <<>> THEN second
             ELSE IF own # "" THEN <<own>> ELSE <<>>

\* 3. and 4. the galleries: strip(), startswith('http')
ImagesOfGallery(xs) ==
    LET ys == [i \in DOMAIN xs |-> Strip(xs[i])]
    IN  AppendNew(<<>>, ys, Http(ys))

\* 5. JSON-LD image: a text is a list of one
ImagesOfJsonLd(src) ==
    IF src.ld = None THEN <<>>
    ELSE LET xs == IF src.ld[1].kind = "str" THEN <<src.ld[1].text>> ELSE src.ld[1].list
         IN  AppendNew(<<>>, xs, Range(xs))

\* 6. meta og:image, as it is
ImagesOfOg(src) ==
    IF src.og # None /\ src.og[1] # "" THEN <<src.og[1]>> ELSE <<>>

\* 7. generic elements: data-src-max or data-src or src, startswith('http')
ImagesOfGeneric(src) ==
    LET xs == [i \in DOMAIN src.generic |->
                  FirstText(src.generic[i].max, src.generic[i].data, src.generic[i].src)]
    IN  AppendNew(<<>>, xs, Http(xs))

\* what each source gives when it is asked alone, in the order of the code
ImageYields(key, src) ==
    <<ImagesOfDerivacao(src), ImagesOfMidias(key, src), ImagesOfGallery(src.thumbs),
      ImagesOfGallery(src.mainFull), ImagesOfGallery(src.mainMax),
      ImagesOfJsonLd(src), ImagesOfOg(src), ImagesOfGeneric(src)>>

\* an extraction that adds the og:image to what the earlier sources gave
ImagesWithOg(key, src) ==
    LET ys == ImageYields(key, src)
        first == {i \in DOMAIN ys : ys[i] # <<>> /\ i # 7}
    IN  (IF first = {} THEN <<>> ELSE ys[CHOOSE i \in first : \A j \in first : i <= j])
            \o ImagesOfOg(src)

\* parse_product, lines "Imagens": images, each source asked only "if not images"
parse_images(key, src) ==
    LET i1 == ImagesOfDerivacao(src)
        i2 == IF i1 = <<>> THEN ImagesOfMidias(key, src) ELSE i1
        i3 == IF i2 = <<>> THEN ImagesOfGallery(src.thumbs) ELSE i2
        i4 == IF i3 = <<>> THEN ImagesOfGallery(src.mainFull) ELSE i3
        i5 == IF i4 = <<>> THEN ImagesOfGallery(src.mainMax) ELSE i4
        i6 == IF i5 = <<>> THEN ImagesOfJsonLd(src) ELSE i5
        i7 == IF i6 = <<>> THEN ImagesOfOg(src) ELSE i6
    IN  IF i7 = <<>> THEN ImagesOfGeneric(src) ELSE i7

\* parse_product called on its own, up to image and images of the Product
ParseImages(key, src) ==
    /\ mpc = "idle"
    /\ op' = CHOOSE r \in
                {[name |-> "parse_images", key |-> key, page |-> src,
                  image  |-> IF images = <<>> THEN None ELSE Some(images[1]),
                  images |-> IF images = <<>> THEN None ELSE Some(images)] :
                    images \in {parse_images(key, src)}} : TRUE
    /\ UNCHANGED <<progress, cache>>
    /\ StoreFrame

Img(maior, media, menor) == [maior |-> maior, media |-> media, menor |-> menor]

Midia(tipo, path, nome) ==
    [tipo_midia |-> tipo, midia_path |-> path, midia_arquivo_nome |-> nome]

El(max, data, src) == [max |-> max, data |-> data, src |-> src]

ImageSources ==
    [data : {None} \cup
            {Some(d) : d \in
                [imagens : {<<>>, <<Img("", "", "")>>,
                            <<Img("http://d/1", "http://d/0", ""), Img("", "", "http://d/2"),
                              Img("", "http://d/1", "")>>},
                 midias  : {<<>>, <<Midia(2, "p/", "2.jpg")>>, <<Midia(1, "", "1.jpg")>>,
                            <<Midia(2, "p/", "2.jpg"), Midia(1, "p/", "1.jpg"),
                              Midia(1, "p/", "1.jpg")>>},
                 midia   : {Midia(0, "", ""), Midia(0, "p/", "3.jpg")}]},
     thumbs   : {<<>>, <<" http://g/1 ", "", "/g/2", "http://g/1", "\thttp://g/3\n",
                         FS \o "http://g/4" \o NEL>>},
     mainFull : {<<>>, <<VT \o "http://m/1" \o NBSP, "http://m/1" \o OGHAM>>},
     mainMax  : {<<>>, <<"http://x/1", "http://x/2", "http://x/1">>},
     ld       : {None, Some([kind |-> "str", text |-> "http://l/1"]),
                 Some([kind |-> "str", text |-> ""]),
                 Some([kind |-> "list", list |-> <<"http://l/2", "", "http://l/1", "http://l/2">>])},
     og       : {None, Some(""), Some(" /og.png")},
     generic  : {<<>>, <<El("", "http://h/1", "x"), El("/h/2", "http://h/2", ""),
                         El("", "", "http://h/1")>>}]

----------------------------------------------------------------------------
(* SpecParse: parse_product called once, on a page with any combination of *)
(* the sources of a price or of the sources of images                      *)

ParseNext ==
    \/ \E src \in PriceSources : op = NoOp /\ ParsePrice(src)
    \/ \E src \in ImageSources : op = NoOp /\ ParseImages("lojavale", src)

SpecParse == Init /\ [][ParseNext]_vars

----------------------------------------------------------------------------
(* Properties of the extraction, checked under SpecParse *)

\* C24: the price of a parsed record is that of the first of dataProduct,
\* the JSON-LD offer and the price meta tag that yields one; a page without
\* a price in dataProduct, with an offer price and a different meta price,
\* has the offer price.
C24_PriceLdBeforeMeta ==
    op.name = "parse_price" => op.price = PriceLdBeforeMeta(op.page)

FirstYield(ys) ==
    LET first == {i \in DOMAIN ys : ys[i] # <<>>}
    IN  IF first = {} THEN <<>> ELSE ys[CHOOSE i \in first : \A j \in first : i <= j]

NoDuplicates(xs) == \A i, j \in DOMAIN xs : i # j => xs[i] # xs[j]

\* xs is ys without the entries that come again, in the order of ys
InOrderOf(xs, ys) ==
    /\ NoDuplicates(xs)
    /\ Range(xs) \subseteq Range(ys)
    /\ \A i, j \in DOMAIN xs :
          i < j => (CHOOSE k \in DOMAIN ys : ys[k] = xs[i] /\ \A l \in 1..(k - 1) : ys[l] # xs[i])
                    < (CHOOSE k \in DOMAIN ys : ys[k] = xs[j] /\ \A l \in 1..(k - 1) : ys[l] # xs[j])

\* x is t with space characters before and after it
Padded(x, t) ==
    \E i \in 1..Len(x) :
        /\ SubSeq(x, i, i + Len(t) - 1) = t
        /\ \A k \in (1..(i - 1)) \cup ((i + Len(t))..Len(x)) : SubSeq(x, k, k) \in Whitespace

\* x has "http" after nothing but space characters
HttpAfterSpace(x) ==
    \E i \in 1..Len(x) :
        /\ i + 3 <= Len(x)
        /\ SubSeq(x, i, i + 3) = "http"
        /\ \A k \in 1..(i - 1) : SubSeq(x, k, k) \in Whitespace

\* C25: images is what the first source of the waterfall that yields an image
\* yields, and nothing of the later ones: the list of dataProduct when it has
\* one, whatever og:image is; the content of og:image, as it is, when the
\* page has no other source; images has no duplicates and keeps the order in
\* which the source lists them, and image is its first element (both are
\* missing when no source yields an image).  A gallery whose entries are URLs
\* between space characters yields these URLs, before JSON-LD and og:image.
C25_ImagesFromFirstSource ==
    op.name = "parse_images" =>
        LET src    == op.page
            images == IF op.images = None THEN <<>> ELSE op.images[1]
        IN  /\ images = FirstYield(ImageYields(op.key, src))
            /\ (src.data # None /\ src.data[1].imagens # <<>>
                  /\ \A i \in DOMAIN src.data[1].imagens : src.data[1].imagens[i].maior # "")
               => InOrderOf(images, [i \in DOMAIN src.data[1].imagens |->
                                        src.data[1].imagens[i].maior])
                  /\ Range(images) = {src.data[1].imagens[i].maior :
                                         i \in DOMAIN src.data[1].imagens}
            /\ (/\ src.data = None /\ src.thumbs = <<>> /\ src.mainFull = <<>>
                /\ src.mainMax = <<>> /\ src.ld = None /\ src.generic = <<>>
                /\ src.og # None /\ src.og[1] # "")
               => images = <<src.og[1]>>
            /\ (/\ src.data = None /\ src.thumbs = <<>> /\ src.mainFull # <<>>
                /\ \A j \in DOMAIN src.mainFull : HttpAfterSpace(src.mainFull[j]))
               => /\ images # <<>>
                  /\ \A i \in DOMAIN images :
                        /\ StartsWith(images[i], "http")
                        /\ SubSeq(images[i], Len(images[i]), Len(images[i])) \notin Whitespace
                        /\ \E j \in DOMAIN src.mainFull : Padded(src.mainFull[j], images[i])
                  /\ \A j \in DOMAIN src.mainFull :
                        \E i \in DOMAIN images : Padded(src.mainFull[j], images[i])
            /\ NoDuplicates(images)
            /\ (op.images = None) <=> (op.image = None)
            /\ op.images # None => op.image = Some(images[1])
            /\ op.images # None => images # <<>>

\* a page with images in dataProduct, listed twice in part, and an og:image
C25_Witness ==
    /\ op.name = "parse_images"
    /\ op.page.data # None
    /\ Len(op.page.data[1].imagens) = 3
    /\ op.page.og = Some(" /og.png")
    /\ op.images = Some(<<"http://d/1", "http://d/2">>)
    /\ op.image = Some("http://d/1")

----------------------------------------------------------------------------
(* BaseScraper.fetch, attempt by attempt.                                  *)
(*                                                                         *)
(* responses[i] is what attempt i meets: "ok" (a 2xx response), or a       *)
(* RequestException: "error" (network), "timeout" or "status" (non-2xx,    *)
(* from raise_for_status).  The delay is in tenths of a second.            *)

FailureKinds == {"error", "timeout", "status"}

\* the loop of fetch from attempt number a (counted from 0), after the sleeps
\* made so far
RECURSIVE FetchLoop(_, _, _, _, _)
FetchLoop(responses, body, delay, a, sleeps) ==
    IF a >= Retries
    THEN [result |-> None, attempts |-> a, sleeps |-> sleeps]
    ELSE IF responses[a + 1] = "ok"
         THEN [result |-> Some(body), attempts |-> a + 1, sleeps |-> sleeps]
         ELSE FetchLoop(responses, body, delay, a + 1,
                        IF a < Retries - 1
                        THEN Append(sleeps, delay * (a + 1)) ELSE sleeps)

\* a fetch that sleeps after every failed attempt
FetchSleepsAlways(responses, body, delay) ==
    LET r == FetchLoop(responses, body, delay, 0, <<>>)
    IN  IF r.result = None
        THEN [r EXCEPT !.sleeps = Append(r.sleeps, delay * Retries)] ELSE r

\* fetch: its result, the attempts it made and the sleeps between them
fetch_run(responses, body, delay) == FetchLoop(responses, body, delay, 0, <<>>)

\* fetch called on its own
FetchCall(responses, delay) ==
    /\ mpc = "idle"
    /\ op = NoOp
    /\ op' = [name |-> "fetch", responses |-> responses, delay |-> delay,
              run |-> fetch_run(responses, "body", delay)]
    /\ UNCHANGED <<progress, cache>>
    /\ StoreFrame

Delays == {0, 1, 3}

FetchNext ==
    \E responses \in [1..Retries -> {"ok"} \cup FailureKinds], delay \in Delays :
        FetchCall(responses, delay)

SpecFetch == Init /\ [][FetchNext]_vars

\* C26: fetch makes at most 3 attempts; it returns the body of the first
\* attempt that succeeds and makes no attempt after it; it sleeps delay * k
\* after the failed attempt k for k = 1 and 2, not after the last attempt;
\* when all 3 attempts fail it returns None.
C26_FetchRetries ==
    op.name = "fetch" =>
        LET oks == {i \in 1..Retries : op.responses[i] = "ok"}
            run == op.run
        IN  /\ Retries = 3
            /\ run.attempts <= 3
            /\ run.result = fetch(op.responses, "body")
            /\ oks # {} =>
                 /\ run.result = Some("body")
                 /\ run.attempts = CHOOSE i \in oks : \A j \in oks : i <= j
            /\ oks = {} => run.result = None /\ run.attempts = 3
            /\ run.sleeps = [k \in 1..Min(run.attempts - 1, 2) |-> op.delay * k]
            /\ (oks = {} \/ oks = {3}) => run.sleeps = <<op.delay, op.delay * 2>>

\* a fetch with delay 0.3 s that met a timeout, a non-2xx status and a
\* network error has slept 0.3 s and 0.6 s and returned None
C26_Witness ==
    /\ op.name = "fetch"
    /\ op.responses = <<"timeout", "status", "error">>
    /\ op.delay = 3
    /\ op.run = [result |-> None, attempts |-> 3, sleeps |-> <<3, 6>>]

----------------------------------------------------------------------------
(* SpecFlush: a crawl of four URLs by two pool threads with save_interval  *)
(* 2, so that len(products) becomes a multiple of it twice                 *)

LvD == "https://www.lojavale.com.br/d"

FlushUrls == {LvA, LvB, LvC, LvD}

FlushSitemaps ==
    [NoSitemaps EXCEPT !["lojavale"] = {Sitemap(AllOk, <<LvA, LvB, LvC, LvD>>)}]

FlushPages ==
    [u \in FlushUrls |->
        CASE u = LvA -> {ProductPage("a", "1", PyFloat(1), TRUE, None, Some("x"))}
          [] u = LvB -> {ProductPage("b", "2", PyFloat(1), TRUE, None, Some("x"))}
          [] u = LvC -> {ProductPage("c", "3", PyFloat(1), TRUE, None, Some("y"))}
          [] u = LvD -> {ProductPage("p", "4", PyFloat(1), TRUE, None, Some("y")), NoDataPage}]

FlushArgs == {Args(<<"lojavale">>, PyFloat(1), 2, FALSE, FALSE, FALSE)}

FlushNext ==
    \/ \E a \in FlushArgs : MainStart(a)
    \/ ScrapeFresh(FlushSitemaps)
    \/ ScrapeRegister
    \/ \E w \in DOMAIN wk : WTake(w)
    \/ \E w \in DOMAIN wk : WProcess(w, FlushPages)
    \/ \E w \in DOMAIN wk : WMarkOk(w)
    \/ \E w \in DOMAIN wk : WAppend(w)
    \/ \E w \in DOMAIN wk : WFlush(w)
    \/ PoolDone
    \/ MainFinish
    \/ SaveEnd

SpecFlush == Init /\ [][FlushNext]_vars

\* C27: in every state of a pool, flushes has one entry for each multiple of
\* save_interval that len(products) has reached and no other; save_callback
\* has been called once for an entry, with a snapshot of at least count
\* records, or not yet, and then the thread that made the append is about to
\* call it; when the pool has finished it has been called for every entry;
\* at most one thread is in save_callback, and it holds products_lock.
C27_OneFlushPerCrossing ==
    mpc = "pool" =>
        /\ Len(flushes) = Len(products) \div SaveInterval
        /\ \A i \in DOMAIN flushes :
              /\ flushes[i].count = i * SaveInterval
              /\ flushes[i].calls <= 1
              /\ flushes[i].calls = 1 => flushes[i].size >= flushes[i].count
              /\ flushes[i].calls = 0 => wk[flushes[i].w].pc = "flush"
        /\ \A w \in DOMAIN wk :
              wk[w].pc = "flush" =>
                 Cardinality({i \in DOMAIN flushes :
                                 flushes[i].w = w /\ flushes[i].calls = 0}) = 1
        /\ PoolFinished => \A i \in DOMAIN flushes : flushes[i].calls = 1
        /\ Cardinality({w \in DOMAIN wk : wk[w].pc = "saving"}) <= 1
        /\ \A w \in DOMAIN wk :
              wk[w].pc = "saving" => lock = w /\ sv.pc = "open" /\ sv.w = w

\* a pool has finished with four records, the flush for count 2 made after the
\* fourth append
C27_Witness ==
    /\ PoolFinished
    /\ Len(products) = 4
    /\ Len(flushes) = 2
    /\ flushes[1].size = 4
    /\ flushes[1].w # flushes[2].w

----------------------------------------------------------------------------
(* SpecAtomic: crawls of the one URL of a supplier, with or without        *)
(* --incremental, that may be terminated at any point, each followed by a  *)
(* fresh crawl or, when it was terminated, by a resume run                 *)

AtomicArgs ==
    {Args(<<"lojavale">>, PyFloat(1), 1, i, r, FALSE) : i \in BOOLEAN, r \in BOOLEAN}

AtomicNext ==
    \/ \E a \in AtomicArgs : (a.resume => exitCode = "killed") /\ MainStart(a)
    \/ ScrapeResume(ResetSitemaps)
    \/ ScrapeFresh(ResetSitemaps)
    \/ ScrapeRegister
    \/ \E w \in DOMAIN wk : WTake(w)
    \/ \E w \in DOMAIN wk : WProcess(w, KillPages)
    \/ \E w \in DOMAIN wk : WMarkUnchanged(w)
    \/ \E w \in DOMAIN wk : WUpsert(w)
    \/ \E w \in DOMAIN wk : WMarkOk(w)
    \/ \E w \in DOMAIN wk : WAppend(w)
    \/ PoolDone
    \/ MainFinish
    \/ SaveEnd
    \/ Kill

SpecAtomic == Init /\ [][AtomicNext]_vars

\* C28: in no state, that left by a termination included, does the cache hold
\* the fingerprint of a record whose URL is pending.
C28_NoFingerprintWhilePending ==
    \A r \in progress :
        r.status = "pending" => \A c \in cache : c.source_url # r.url

----------------------------------------------------------------------------
(* SpecTwin: incremental crawls by two pool threads of two URLs whose      *)
(* pages give the same SKU, name, price, stock flag and description        *)

TwinSitemaps ==
    [NoSitemaps EXCEPT !["lojavale"] = {Sitemap(AllOk, <<LvA, LvB>>)}]

TwinPages ==
    [u \in {LvA, LvB} |-> {ProductPage("a", "1", PyFloat(1), TRUE, None, Some("x"))}]

TwinArgs == {Args(<<"lojavale">>, PyFloat(1), 2, TRUE, FALSE, FALSE)}

TwinNext ==
    \/ \E a \in TwinArgs : MainStart(a)
    \/ ScrapeFresh(TwinSitemaps)
    \/ ScrapeRegister
    \/ \E w \in DOMAIN wk : WTake(w)
    \/ \E w \in DOMAIN wk : WProcess(w, TwinPages)
    \/ \E w \in DOMAIN wk : WMarkUnchanged(w)
    \/ \E w \in DOMAIN wk : WUpsert(w)
    \/ \E w \in DOMAIN wk : WMarkOk(w)
    \/ \E w \in DOMAIN wk : WAppend(w)
    \/ \E w \in DOMAIN wk : WFlush(w)
    \/ PoolDone
    \/ MainFinish
    \/ SaveEnd

SpecTwin == Init /\ [][TwinNext]_vars

\* C29: when the pool of an incremental run over two URLs of one supplier
\* that parse to the same (supplier, sku) and the same name, price, stock flag
\* and description has finished, at most one of them was accepted and the
\* other is marked 'unchanged'.
C29_TwinAcceptedOnce ==
    PoolFinished =>
        /\ Len(products) <= 1
        /\ \E r \in progress : r.result = "unchanged"

----------------------------------------------------------------------------
(* The supplier whose sitemap failed, checked under SpecAll *)

RowsOf(t, name) == {r \in t : r.supplier = name}

\* C30: in a fresh run, the step of scrape_all in which the sitemap download
\* of a supplier fails leaves the entries of that supplier as they were, and
\* the catalog at the end of the run still holds the records of that supplier
\* that it held when the run started.
C30_FailedSupplierKept ==
    [][/\ (SitemapFails /\ ~args.resume) =>
             RowsOf(progress', CurName) = RowsOf(progress, CurName)
       /\ (ScrapeEnds /\ ~args.resume) =>
             \A k \in Range(args.sources) :
                [url |-> k, kind |-> "sitemap_failed"] \in outcome =>
                   \A d \in Range(startFile.products) :
                      d.supplier = SUPPLIERS[k].name => d \in Range(file'.products)]_vars

====
